---- MODULE Spec2Model ----
(***************************************************************************)
(* The k-sparse autoencoder of sparse_autoencoder.py (class                *)
(* FastAutoencoder, load_sae_model, unit_norm_decoder_), whose compiled    *)
(* form is carried at the end of scripts.js.                               *)
(*                                                                         *)
(* Tensors are modelled over the integers.  A vector of length n is a      *)
(* function on 0..n-1, so latent dimensions keep the 0-based numbering of  *)
(* the source.  A batch is a sequence of input vectors; the per-item       *)
(* outputs of a call are sequences in the same item order.  A 1-D input    *)
(* is the batch of one item.                                               *)
(*                                                                         *)
(* The page script of scripts.js (lines 1-770) is modelled by the variable *)
(* page: its globals and what it has put into the document.  Activations   *)
(* and thresholds are counted in tenths, opacities in hundredths, marker   *)
(* sizes in tenths of a pixel.                                             *)
(*                                                                         *)
(* history is the log of the store's forward calls where a specification   *)
(* keeps one: the primary-code union of every call that returned, oldest   *)
(* first.                                                                  *)
(*                                                                         *)
(* files is the lyrics directory of lyrics_utils.py (the compiled module   *)
(* unnamed/part_000): the files under base_dir, each path mapped to what   *)
(* the file holds.                                                         *)
(***************************************************************************)
EXTENDS Integers, Sequences, FiniteSets, TLC

VARIABLES model, before, res, page, history, files

vars == <<model, before, res, page, history, files>>

(***************************************************************************)
(* Bounds of the model.                                                    *)
(***************************************************************************)
\* largest number of items handed to one call
MaxBatch == 2
\* forward passes stop once a staleness counter has reached this value
MaxDeadSteps == 3
\* largest absolute value of a latent entry handed to a decode call
MaxLatent == 1
\* largest clamp argument handed to decode_clamp
MaxClamp == 2
\* largest collection handed to compute_activations
MaxItems == 3
\* largest chunk size handed to compute_activations
MaxChunk == 4

(***************************************************************************)
(* Program constants.                                                      *)
(***************************************************************************)
\* forward: torch.topk(latents_pre_act, k=min(4 * self.k, shape[-1]))
MultikFactor == 4
\* decode_clamp: torch.topk(latents, k=min(64, latents.shape[-1]))
ClampTopK == 64

(***************************************************************************)
(* Optional values: None is the empty sequence, a value v is <<v>>.        *)
(***************************************************************************)
None == << >>

Some(v) == <<v>>

IsNone(o) == o = << >>

(***************************************************************************)
(* Vectors and matrices.                                                   *)
(***************************************************************************)
\* a function with its values computed once
Tensor(f) == f @@ f

Vec(s) == Tensor([i \in 0..(Len(s) - 1) |-> s[i + 1]])

Mat(rows) == Tensor([r \in 0..(Len(rows) - 1) |-> Vec(rows[r + 1])])

Size(v) == Cardinality(DOMAIN v)

Zeros(n) == Tensor([i \in 0..(n - 1) |-> 0])

Min2(a, b) == IF a <= b THEN a ELSE b

RECURSIVE SumUpTo(_, _)
SumUpTo(f, n) == IF n = 0 THEN 0 ELSE f[n - 1] + SumUpTo(f, n - 1)

VecAdd(a, b) == Tensor([i \in DOMAIN a |-> a[i] + b[i]])

VecSub(a, b) == Tensor([i \in DOMAIN a |-> a[i] - b[i]])

VecScale(c, a) == Tensor([i \in DOMAIN a |-> c * a[i]])

\* nn.Linear(bias=False): weight has one row per output coordinate
Linear(W, x) ==
    Tensor([j \in DOMAIN W |-> SumUpTo([i \in DOMAIN x |-> W[j][i] * x[i]], Size(x))])

Relu(v) == IF v > 0 THEN v ELSE 0

(***************************************************************************)
(* Persisted parameter blobs (state dicts) and the hyperparameters the     *)
(* caller declares with them.                                              *)
(***************************************************************************)
Blob(bias) ==
    [ n_dirs |-> 3, d_model |-> 2,
      encoder_weight |-> Mat(<< <<1, 0>>, <<0, 1>>, <<-1, -1>> >>),
      decoder_weight |-> Mat(<< <<1, 0, -1>>, <<0, 2, 1>> >>),
      pre_bias |-> Vec(<<1, 0>>),
      latent_bias |-> bias ]

Blobs == {Blob(bias) : bias \in [0..2 -> {-1, 0, 1}]}

\* k as configured: up to one more than the store has dimensions
KChoices(n) == 1..(n + 1)

AuxkChoices == {None, Some(2), Some(4)}

\* multik: left out (None), switched off with 0, or the default
MultikChoices == {None, Some(0), Some(128)}

ThresholdChoices == {0, 1}

\* self.device = torch.device('cuda' if torch.cuda.is_available() else 'cpu')
Devices == {"cpu", "cuda"}

\* FastAutoencoder.__init__ followed by load_state_dict(blob)
NewModel(blob, k, auxk, multik, threshold, device) ==
    [ n_dirs |-> blob.n_dirs,
      d_model |-> blob.d_model,
      k |-> k,
      auxk |-> auxk,
      multik |-> multik,
      dead_steps_threshold |-> threshold,
      encoder_weight |-> blob.encoder_weight,
      decoder_weight |-> blob.decoder_weight,
      pre_bias |-> blob.pre_bias,
      latent_bias |-> blob.latent_bias,
      stats_last_nonzero |-> Zeros(blob.n_dirs),
      device |-> device ]

(***************************************************************************)
(* Inputs.                                                                 *)
(***************************************************************************)
\* the embedding vectors handed to the store, in the order of the data set
Data == << Vec(<<1, 0>>), Vec(<<0, 1>>), Vec(<<1, 1>>) >>

\* n consecutive items of the data set, from item start on (cyclically)
Window(start, n) == [i \in 1..n |-> Data[((start + i - 2) % Len(Data)) + 1]]

Batches == {Window(start, n) : start \in 1..Len(Data), n \in 1..MaxBatch}

\* batches whose rows are narrower or wider than the stores' d_model = 2
MisshapedBatches ==
    { <<Vec(<<1>>)>>, <<Vec(<<0>>), Vec(<<2>>)>>, <<Vec(<<1, 0, 1>>)>> }

(***************************************************************************)
(* Encoder, decoder, top-k, scatter.                                       *)
(***************************************************************************)
\* x - self.pre_bias and the matrix product go through for rows as wide as
\* d_model and, by broadcasting, for rows of width 1; other widths raise
Accepts(m, x) == \A i \in 1..Len(x) : Size(x[i]) \in {1, m.d_model}

\* x - self.pre_bias, a row of width 1 being stretched to d_model
SubBias(m, x) ==
    IF Size(x) = Size(m.pre_bias) THEN VecSub(x, m.pre_bias)
    ELSE Tensor([i \in DOMAIN m.pre_bias |-> x[0] - m.pre_bias[i]])

\* x = x - self.pre_bias; latents_pre_act = self.encoder(x) + self.latent_bias
Encode(m, x) == VecAdd(Linear(m.encoder_weight, SubBias(m, x)), m.latent_bias)

\* self.decoder(latents) + self.pre_bias
Decode(m, latents) == VecAdd(Linear(m.decoder_weight, latents), m.pre_bias)

\* torch.topk orders equal entries as the backend's kernel happens to: by
\* rising index on one backend, by falling index on the other
Precedes(v, a, b, device) ==
    \/ v[a] > v[b]
    \/ v[a] = v[b] /\ a # b /\ (IF device = "cpu" THEN a < b ELSE a > b)

\* torch.topk called with largest=False: the smallest entry first
SmallestFirst(v, rest, device) ==
    CHOOSE a \in rest : \A b \in rest \ {a} : Precedes(v, b, a, device)

\* the entry of v, among the positions in rest, that topk lists first
Largest(v, rest, device) ==
    CHOOSE a \in rest : \A b \in rest \ {a} : Precedes(v, a, b, device)

RECURSIVE TopKFrom(_, _, _, _)
TopKFrom(v, kk, rest, device) ==
    IF kk = 0 THEN << >>
    ELSE LET a == Largest(v, rest, device)
         IN  <<a>> \o TopKFrom(v, kk - 1, rest \ {a}, device)

\* a topk that orders equal entries now one way, now the other
TopKEitherTies(v, kk, device) ==
    IF kk < 0 \/ kk > Size(v) THEN {}
    ELSE {TopKFrom(v, kk, DOMAIN v, "cpu"), TopKFrom(v, kk, DOMAIN v, "cuda")}

\* torch.topk(v, k=kk, dim=-1).indices: the kk largest entries, largest first.
\* The set holds the one index sequence returned; it is empty when the call
\* raises (kk not in 0..len(v)).
TopK(v, kk, device) ==
    IF kk < 0 \/ kk > Size(v) THEN {}
    ELSE {TopKFrom(v, kk, DOMAIN v, device)}

\* the values that go with an index sequence
Gather(v, idx) == Tensor([p \in 1..Len(idx) |-> v[idx[p]]])

ReluSeq(vals) == Tensor([p \in 1..Len(vals) |-> Relu(vals[p])])

\* the sequences that take their p-th element from the p-th set of sets
RECURSIVE ChoiceSeqs(_)
ChoiceSeqs(sets) ==
    IF Len(sets) = 0 THEN {<< >>}
    ELSE {<<h>> \o t : h \in sets[1], t \in ChoiceSeqs(Tail(sets))}

\* base.scatter_(-1, idx, vals): position idx[p] receives vals[p]; a position
\* named more than once receives one of its values
Scatter(base, idx, vals) ==
    LET n == Size(base)
        cands == [d \in 1..n |->
                    IF \E p \in 1..Len(idx) : idx[p] = d - 1
                    THEN {vals[p] : p \in {q \in 1..Len(idx) : idx[q] = d - 1}}
                    ELSE {base[d - 1]}]
    IN  {Vec(c) : c \in ChoiceSeqs(cands)}

(***************************************************************************)
(* FastAutoencoder.forward                                                 *)
(***************************************************************************)
\* if self.multik:  (None and 0 are false)
Truthy(o) == ~IsNone(o) /\ o[1] # 0

\* a primary code one entry short
PrimaryWidthShort(m) == m.k - 1

\* topk_values, topk_indices = torch.topk(latents_pre_act, k=self.k, dim=-1)
PrimaryWidth(m) == m.k

\* topk_values = F.relu(topk_values)
PrimaryCodes(m, pre) ==
    {[topk_indices |-> s, topk_values |-> ReluSeq(Gather(pre, s))] :
        s \in TopK(pre, PrimaryWidth(m), m.device)}

\* latents = torch.zeros_like(latents_pre_act); latents.scatter_(-1, topk_indices, topk_values)
PostAct(pre, code) ==
    CHOOSE f \in Scatter(Zeros(Size(pre)), code.topk_indices, code.topk_values) : TRUE

\* a multi-k branch twice as wide as the primary code
MultikWidthDouble(m) == Min2(2 * m.k, m.n_dirs)

\* the multi-k branch: top min(4 * k, n_dirs) entries, clamped, scattered, decoded
MultikWidth(m) == Min2(MultikFactor * m.k, m.n_dirs)

MultikLatents(m, pre) ==
    IF Truthy(m.multik)
    THEN {Some(lat) : lat \in UNION {Scatter(Zeros(Size(pre)), s, ReluSeq(Gather(pre, s))) :
                                        s \in TopK(pre, MultikWidth(m), m.device)}}
    ELSE {None}

MultikRecons(m, ml) == IF IsNone(ml) THEN None ELSE Some(Decode(m, ml[1]))

\* unique_indices = topk_indices.unique()
UniqueIndices(codes) ==
    UNION {{codes[i].topk_indices[p] : p \in 1..Len(codes[i].topk_indices)} : i \in 1..Len(codes)}

\* the two statements in the other order: reset, then count
UpdateStatsResetFirst(stats, unique) ==
    Tensor([i \in DOMAIN stats |-> (IF i \in unique THEN 0 ELSE stats[i]) + 1])

\* self.stats_last_nonzero += 1
\* if unique_indices.numel() > 0: self.stats_last_nonzero.scatter_(0, unique_indices, 0)
UpdateStats(stats, unique) ==
    Tensor([i \in DOMAIN stats |-> IF i \in unique THEN 0 ELSE stats[i] + 1])

\* the mask taken with >= in place of >
DeadMaskInclusive(m) ==
    Tensor([i \in DOMAIN m.stats_last_nonzero |->
              IF m.stats_last_nonzero[i] >= m.dead_steps_threshold THEN 1 ELSE 0])

\* dead_mask = (self.stats_last_nonzero > self.dead_steps_threshold).float()
DeadMask(m) ==
    Tensor([i \in DOMAIN m.stats_last_nonzero |->
              IF m.stats_last_nonzero[i] > m.dead_steps_threshold THEN 1 ELSE 0])

\* dead_latents_pre_act = latents_pre_act * dead_mask
DeadPreAct(m, pre) == Tensor([i \in DOMAIN pre |-> pre[i] * DeadMask(m)[i]])

\* the width taken from the number of dead dimensions
AuxWidthDeadCount(m) ==
    Min2(m.auxk[1],
         Cardinality({i \in DOMAIN m.stats_last_nonzero :
                        m.stats_last_nonzero[i] > m.dead_steps_threshold}))

\* k=min(self.auxk, dead_latents_pre_act.shape[-1])
AuxWidth(m) == Min2(m.auxk[1], m.n_dirs)

\* the auxiliary branch, on the store as updated by this pass
AuxCodes(m, pre) ==
    IF IsNone(m.auxk)
    THEN {[auxk_indices |-> None, auxk_values |-> None]}
    ELSE {[auxk_indices |-> Some(s),
           auxk_values |-> Some(ReluSeq(Gather(DeadPreAct(m, pre), s)))] :
             s \in TopK(DeadPreAct(m, pre), AuxWidth(m), m.device)}

\* what forward returns for one item, its primary code being chosen
ItemOutputs(m, pre, code) ==
    {[ recons |-> Decode(m, PostAct(pre, code)),
       topk_indices |-> code.topk_indices,
       topk_values |-> code.topk_values,
       multik_recons |-> MultikRecons(m, ml),
       auxk_indices |-> aux.auxk_indices,
       auxk_values |-> aux.auxk_values,
       latents_pre_act |-> pre,
       latents_post_act |-> PostAct(pre, code) ] :
         ml \in MultikLatents(m, pre), aux \in AuxCodes(m, pre)}

\* a pass that also rescales the decoder, every entry brought into -1..1
ForwardStoreRescaling(m, unique) ==
    [m EXCEPT !.stats_last_nonzero = UpdateStats(m.stats_last_nonzero, unique),
              !.decoder_weight =
                  Tensor([r \in DOMAIN m.decoder_weight |->
                     Tensor([c \in DOMAIN m.decoder_weight[r] |->
                        IF m.decoder_weight[r][c] > 0 THEN 1
                        ELSE IF m.decoder_weight[r][c] < 0 THEN -1 ELSE 0])])]

\* the store after a pass: stats_last_nonzero is the one attribute assigned
ForwardStore(m, unique) ==
    [m EXCEPT !.stats_last_nonzero = UpdateStats(m.stats_last_nonzero, unique)]

\* every outcome of forward(x) on store m: the store afterwards and the result
ForwardOutcomes(m, x) ==
    LET pre == Tensor([i \in 1..Len(x) |-> Encode(m, x[i])])
        prim == Tensor([i \in 1..Len(x) |-> PrimaryCodes(m, pre[i])])
    IN  IF ~Accepts(m, x) \/ \E i \in 1..Len(x) : prim[i] = {}
        THEN {[model |-> m, res |-> [op |-> "forward", x |-> x, raised |-> TRUE]]}
        ELSE UNION {
               LET m1 == ForwardStore(m, UniqueIndices(codes))
                   outs == Tensor([i \in 1..Len(x) |-> ItemOutputs(m1, pre[i], codes[i])])
               IN  IF \E i \in 1..Len(x) : outs[i] = {}
                   THEN {[model |-> m1, res |-> [op |-> "forward", x |-> x, raised |-> TRUE]]}
                   ELSE {[model |-> m1,
                          res |-> [op |-> "forward", x |-> x, raised |-> FALSE, out |-> o]] :
                            o \in ChoiceSeqs(outs)}
               : codes \in ChoiceSeqs(prim)}

CanStep(m) == \A i \in DOMAIN m.stats_last_nonzero : m.stats_last_nonzero[i] < MaxDeadSteps

\* no call is in progress and the last result has been taken by the caller
Idle == res.op = "none"

ForwardStep(batches) ==
    /\ Idle
    /\ CanStep(model)
    /\ \E x \in batches :
         \E o \in ForwardOutcomes(model, x) :
            /\ model' = o.model
            /\ res' = o.res
    /\ before' = model
    /\ UNCHANGED <<page, files>>

ForwardOn(batches) ==
    /\ ForwardStep(batches)
    /\ UNCHANGED history

\* most forward passes a store is followed through while its calls are logged
MaxCalls == 4

\* forward on a batch of embedding vectors, with the primary-code union of
\* every call that returns appended to the log of the store's forward calls
ForwardLogged ==
    /\ Len(history) < MaxCalls
    /\ ForwardStep(Batches)
    /\ history' = IF res'.raised THEN history
                  ELSE Append(history, UniqueIndices(res'.out))

\* forward on a batch of embedding vectors
Forward == ForwardOn(Batches)

\* forward on a batch whose rows are not d_model wide
ForwardMisshaped == ForwardOn(MisshapedBatches)

\* the caller takes the result; the store stays as the call left it
\* (concurrent callers are joined once each of them has finished)
Return ==
    /\ ~Idle
    /\ res.op = "concurrent" => \A t \in DOMAIN res.calls : res.calls[t].done
    /\ res' = [op |-> "none"]
    /\ before' = model
    /\ UNCHANGED <<page, history, files>>
    /\ UNCHANGED model

(***************************************************************************)
(* FastAutoencoder.decode_sparse, decode_clamp, decode_at_k                *)
(***************************************************************************)
RECURSIVE SeqsOfLen(_, _)
SeqsOfLen(S, n) ==
    IF n = 0 THEN {<< >>}
    ELSE {Append(q, e) : q \in SeqsOfLen(S, n - 1), e \in S}

LatentVals == (-MaxLatent)..MaxLatent

\* dense latent vectors handed to decode_clamp and decode_at_k
LatentVecs(n) == {Vec(q) : q \in SeqsOfLen(LatentVals, n)}

\* sparse codes handed to decode_sparse: indices (repeats included) and values
CodeLengths == {0, 1, 2}

SparseCodes(n) ==
    UNION {{[indices |-> idx, values |-> val] :
               idx \in SeqsOfLen(0..(n - 1), len), val \in SeqsOfLen(LatentVals, len)} :
             len \in CodeLengths}

\* decode_sparse with the clamp of the other two entry points applied to values
DecodeSparseClamped(m, indices, values) ==
    {Decode(m, lat) : lat \in Scatter(Zeros(m.n_dirs), indices, ReluSeq(values))}

\* latents = torch.zeros(self.n_dirs); latents.scatter_(-1, indices, values)
\* return self.decoder(latents) + self.pre_bias
\* (every vector the call may return: one, when the indices are distinct)
DecodeSparse(m, indices, values) ==
    {Decode(m, lat) : lat \in Scatter(Zeros(m.n_dirs), indices, values)}

\* the top kk entries of latents, clamped at zero, scattered into zeros
ReSparsify(latents, kk, device) ==
    UNION {Scatter(Zeros(Size(latents)), q, ReluSeq(Gather(latents, q))) :
             q \in TopK(latents, kk, device)}

\* decode_at_k without the clamp of the selected values
DecodeAtKUnclamped(m, latents, kk) ==
    {Decode(m, lat) :
        lat \in UNION {Scatter(Zeros(Size(latents)), q, Gather(latents, q)) :
                         q \in TopK(latents, Min2(kk, Size(latents)), m.device)}}

\* topk(latents, k=min(k, latents.shape[-1])); relu; zeros_like; scatter_; decode
\* (empty when topk raises)
DecodeAtK(m, latents, kk) ==
    {Decode(m, lat) : lat \in ReSparsify(latents, Min2(kk, Size(latents)), m.device)}

\* decode_clamp taking its second argument for the number of entries to keep
DecodeClampAsWidth(m, latents, clamp) ==
    {Decode(m, lat) : lat \in ReSparsify(latents, Min2(clamp, Size(latents)), m.device)}

\* topk(latents, k=min(64, latents.shape[-1])); relu; zeros_like; scatter_;
\* latents = latents * clamp; decode
DecodeClamp(m, latents, clamp) ==
    {Decode(m, VecScale(clamp, lat)) :
        lat \in ReSparsify(latents, Min2(ClampTopK, Size(latents)), m.device)}

\* a decode call that also counts a step of the dead-neuron tracker
DecodeStoreCounting(m) ==
    [m EXCEPT !.stats_last_nonzero = UpdateStats(m.stats_last_nonzero, {})]

\* the store after a decode call: no statement of the three assigns to self
DecodeStore(m) == m

DecodeSparseCall ==
    /\ Idle
    /\ \E code \in SparseCodes(model.n_dirs) :
         LET outs == DecodeSparse(model, code.indices, code.values)
         IN  \E out \in outs :
                res' = [op |-> "decode_sparse", indices |-> code.indices,
                        values |-> code.values, raised |-> FALSE, out |-> out]
    /\ model' = DecodeStore(model)
    /\ before' = model
    /\ UNCHANGED <<page, history, files>>

DecodeClampCall ==
    /\ Idle
    /\ \E latents \in LatentVecs(model.n_dirs), clamp \in 0..MaxClamp :
         \E out \in DecodeClamp(model, latents, clamp) :
            res' = [op |-> "decode_clamp", latents |-> latents, clamp |-> clamp,
                    raised |-> FALSE, out |-> out]
    /\ model' = DecodeStore(model)
    /\ before' = model
    /\ UNCHANGED <<page, history, files>>

DecodeAtKCall ==
    /\ Idle
    /\ \E latents \in LatentVecs(model.n_dirs), kk \in 0..(model.n_dirs + 1) :
         \E out \in DecodeAtK(model, latents, kk) :
            res' = [op |-> "decode_at_k", latents |-> latents, k |-> kk,
                    raised |-> FALSE, out |-> out]
    /\ model' = DecodeStore(model)
    /\ before' = model
    /\ UNCHANGED <<page, history, files>>

(***************************************************************************)
(* FastAutoencoder.compute_activations                                     *)
(***************************************************************************)
\* batch_size=1024 when the caller leaves it out
DefaultBatchSize == 1024

\* a slice that loses the last item of every chunk
SliceShort(x, lo, hi) == SubSeq(x, lo + 1, Min2(hi, Len(x)) - 1)

\* batch = x[i:i + batch_size]: x[lo:hi] of a Python sequence, lo and hi 0-based
Slice(x, lo, hi) == SubSeq(x, lo + 1, Min2(hi, Len(x)))

\* the rows without the relu
ActivationsRaw(m, batch) == [r \in 1..Len(batch) |-> Encode(m, batch[r])]

\* activations = F.relu(self.encoder(batch - self.pre_bias) + self.latent_bias)
Activations(m, batch) ==
    [r \in 1..Len(batch) |->
        LET pre == Encode(m, batch[r])
        IN  Tensor([d \in DOMAIN pre |-> Relu(pre[d])])]

\* for i in range(0, num_samples, batch_size): all_activations.append(...)
\* np.vstack(all_activations)
RECURSIVE ChunkRows(_, _, _, _)
ChunkRows(m, x, batch_size, i) ==
    IF i >= Len(x) THEN << >>
    ELSE Activations(m, Slice(x, i, i + batch_size))
            \o ChunkRows(m, x, batch_size, i + batch_size)

\* compute_activations(x, batch_size), for batch_size > 0 and x not empty
ComputeActivations(m, x, batch_size) == ChunkRows(m, x, batch_size, 0)

Collections == {Window(start, n) : start \in 1..Len(Data), n \in 1..MaxItems}

\* an analysis call that also counts a step of the dead-neuron tracker
ActivationsStoreCounting(m) ==
    [m EXCEPT !.stats_last_nonzero = UpdateStats(m.stats_last_nonzero, {})]

\* the store after compute_activations or get_topk_activations: neither
\* assigns to self, and the encoder runs under torch.no_grad()
ActivationsStore(m) == m

\* the call as the caller sees it: range(0, n, 0) raises, a negative step
\* or an empty x leaves nothing for np.vstack, which raises, and rows of a
\* width that does not broadcast raise in the first chunk
ComputeActivationsResult(m, x, batch_size) ==
    IF batch_size <= 0 \/ Len(x) = 0 \/ ~Accepts(m, x)
    THEN [op |-> "compute_activations", x |-> x, batch_size |-> batch_size,
          raised |-> TRUE]
    ELSE [op |-> "compute_activations", x |-> x, batch_size |-> batch_size,
          raised |-> FALSE, out |-> ComputeActivations(m, x, batch_size)]

ComputeActivationsOn(xs, sizes) ==
    /\ Idle
    /\ \E x \in xs, batch_size \in sizes :
         res' = ComputeActivationsResult(model, x, batch_size)
    /\ model' = ActivationsStore(model)
    /\ before' = model
    /\ UNCHANGED <<page, history, files>>

\* compute_activations on a collection of embedding vectors, in chunks
ComputeActivationsCall == ComputeActivationsOn(Collections, 1..MaxChunk)

\* compute_activations with a chunk size of 0 or below, or on misshaped rows
ComputeActivationsMisused ==
    \/ ComputeActivationsOn(Collections, {-1, 0})
    \/ ComputeActivationsOn(MisshapedBatches, {1, DefaultBatchSize})

(***************************************************************************)
(* FastAutoencoder.get_topk_activations                                    *)
(***************************************************************************)
\* the orderings of a finite set
RECURSIVE Orderings(_)
Orderings(S) ==
    IF S = {} THEN {<< >>}
    ELSE UNION {{<<e>> \o t : t \in Orderings(S \ {e})} : e \in S}

\* np.argsort(col): the 0-based positions of col in ascending order of value;
\* the default sort is not stable, so equal values come in any order
ArgSort(col) ==
    {p \in Orderings(0..(Len(col) - 1)) :
        \A i, j \in 1..Len(p) : i < j => col[p[i] + 1] <= col[p[j] + 1]}

\* a[-k:] of a Python sequence (a[-0:] is the whole of a)
Last(a, k) ==
    IF k <= 0 THEN a
    ELSE SubSeq(a, (IF Len(a) - k > 0 THEN Len(a) - k ELSE 0) + 1, Len(a))

\* a[::-1]
Reversed(a) == [p \in 1..Len(a) |-> a[Len(a) + 1 - p]]

\* neuron_activations = all_activations[:, neuron_idx]
Column(rows, d) == [r \in 1..Len(rows) |-> rows[r][d]]

\* k = min(self.k, len(neuron_activations))
\* indices = np.argsort(neuron_activations)[-k:][::-1]
RankColumn(m, col) ==
    {Reversed(Last(p, Min2(m.k, Len(col)))) : p \in ArgSort(col)}

\* values = neuron_activations[indices]
Take(col, indices) == [p \in 1..Len(indices) |-> col[indices[p] + 1]]

\* get_topk_activations(x, batch_size): for every neuron the ranked item
\* positions and their activations, one row per neuron
GetTopkActivations(m, x, batch_size) ==
    LET rows == ComputeActivations(m, x, batch_size)
        cols == [d \in 1..m.n_dirs |-> Column(rows, d - 1)]
    IN  {[indices |-> idx, values |-> [d \in 1..m.n_dirs |-> Take(cols[d], idx[d])]] :
            idx \in ChoiceSeqs([d \in 1..m.n_dirs |-> RankColumn(m, cols[d])])}

GetTopkActivationsCall ==
    /\ Idle
    /\ \E x \in Collections, batch_size \in {1, DefaultBatchSize} :
         \E o \in GetTopkActivations(model, x, batch_size) :
            res' = [op |-> "get_topk_activations", x |-> x, batch_size |-> batch_size,
                    raised |-> FALSE, indices |-> o.indices, values |-> o.values]
    /\ model' = ActivationsStore(model)
    /\ before' = model
    /\ UNCHANGED <<page, history, files>>

(***************************************************************************)
(* Decode and activation calls running concurrently on one store           *)
(***************************************************************************)
\* number of threads calling into the store at once
MaxCallers == 2

Callers == 1..MaxCallers

\* the calls a thread may be making
ConcurrentCalls ==
    { [op |-> "decode_sparse", indices |-> <<0, 2>>, values |-> <<1, -1>>],
      [op |-> "decode_clamp", latents |-> Vec(<<1, -1, 1>>), clamp |-> 2],
      [op |-> "decode_at_k", latents |-> Vec(<<-1, 1, 1>>), k |-> 2],
      [op |-> "compute_activations", x |-> Window(1, 3), batch_size |-> 2],
      [op |-> "compute_activations", x |-> Window(2, 2), batch_size |-> 1] }

IsDecode(c) == c.op \in {"decode_sparse", "decode_clamp", "decode_at_k"}

\* the local latents a decode call builds before it touches the decoder
LocalLatents(m, c) ==
    CASE c.op = "decode_sparse" -> Scatter(Zeros(m.n_dirs), c.indices, c.values)
      [] c.op = "decode_clamp" ->
           {VecScale(c.clamp, lat) :
               lat \in ReSparsify(c.latents, Min2(ClampTopK, Size(c.latents)), m.device)}
      [] c.op = "decode_at_k" ->
           ReSparsify(c.latents, Min2(c.k, Size(c.latents)), m.device)

\* one step of a thread inside its call, reading the store as it is at that
\* moment: a decode call builds its latents, applies self.decoder, adds
\* self.pre_bias; compute_activations encodes one chunk per step and stacks
StepOf(m, th) ==
    LET c == th.call
    IN  IF IsDecode(c)
        THEN CASE th.pc = 0 -> {[th EXCEPT !.pc = 1, !.acc = lat] : lat \in LocalLatents(m, c)}
               [] th.pc = 1 -> {[th EXCEPT !.pc = 2, !.acc = Linear(m.decoder_weight, th.acc)]}
               [] th.pc = 2 -> {[th EXCEPT !.pc = 3, !.acc = VecAdd(th.acc, m.pre_bias),
                                            !.done = TRUE]}
        ELSE IF th.pc * c.batch_size >= Len(c.x)
             THEN {[th EXCEPT !.done = TRUE]}
             ELSE {[th EXCEPT !.pc = th.pc + 1,
                              !.acc = th.acc \o Activations(m, Slice(c.x, th.pc * c.batch_size,
                                                             (th.pc + 1) * c.batch_size))]}

\* a step that counts in the dead-neuron tracker, as a forward pass does
StoreAfterStepCounting(m, th) ==
    IF th.done
    THEN [m EXCEPT !.stats_last_nonzero = UpdateStats(m.stats_last_nonzero, {})]
    ELSE m

\* the store after a thread's step: the calls assign nothing to self
StoreAfterStep(m, th) ==
    IF IsDecode(th.call) THEN DecodeStore(m) ELSE ActivationsStore(m)

\* the threads enter their calls
Spawn ==
    /\ Idle
    /\ \E cs \in [Callers -> ConcurrentCalls] :
         res' = [op |-> "concurrent", raised |-> FALSE,
                 calls |-> [t \in Callers |->
                              [call |-> cs[t], pc |-> 0, acc |-> << >>, done |-> FALSE]]]
    /\ UNCHANGED model
    /\ before' = model
    /\ UNCHANGED <<page, history, files>>

\* some thread that has not finished takes its next step
CallerStep ==
    /\ res.op = "concurrent"
    /\ \E t \in Callers :
         /\ ~res.calls[t].done
         /\ \E th \in StepOf(model, res.calls[t]) :
              /\ res' = [res EXCEPT !.calls[t] = th]
              /\ model' = StoreAfterStep(model, th)
    /\ UNCHANGED <<before, page, history, files>>

(***************************************************************************)
(* load_sae_model                                                          *)
(***************************************************************************)
\* the entries of FastAutoencoder's state dict: four parameters and a buffer
Keys == {"encoder.weight", "decoder.weight", "pre_bias", "latent_bias",
         "stats_last_nonzero"}

\* the sizes a persisted store or a declaration may have
Dims == {2, 3}

Filled(shape, v) ==
    [shape |-> shape,
     data |-> IF Len(shape) = 1 THEN Tensor([i \in 0..(shape[1] - 1) |-> v])
              ELSE Tensor([r \in 0..(shape[1] - 1) |->
                              Tensor([c \in 0..(shape[2] - 1) |-> v + r + c])])]

\* the shape FastAutoencoder.__init__ gives each entry
ExpectedShape(n_dirs, d_model, key) ==
    CASE key = "encoder.weight" -> <<n_dirs, d_model>>
      [] key = "decoder.weight" -> <<d_model, n_dirs>>
      [] key = "pre_bias" -> <<d_model>>
      [] key = "latent_bias" -> <<n_dirs>>
      [] key = "stats_last_nonzero" -> <<n_dirs>>
      [] OTHER -> << >>

\* the state dict saved from a trained store of n_dirs x d_model
SavedStateDict(n_dirs, d_model) ==
    [key \in Keys |-> Filled(ExpectedShape(n_dirs, d_model, key), 2)]

\* what may be found at model_path: nothing, bytes torch.load cannot read, a
\* pickled object that is not a state dict, or a state dict, complete or with
\* entries lost or added
Files ==
    {[kind |-> "missing"], [kind |-> "unreadable"], [kind |-> "object"]}
    \cup {[kind |-> "state_dict",
           tensors |-> [key \in kept \cup extra |->
                           IF key \in Keys THEN SavedStateDict(n, d)[key]
                           ELSE Filled(<<1>>, 0)]] :
             n \in Dims, d \in Dims, kept \in SUBSET Keys, extra \in {{}, {"step"}}}

\* torch.load(model_path, map_location=device)
TorchLoad(file) ==
    IF file.kind \in {"missing", "unreadable"} THEN [raised |-> TRUE]
    ELSE [raised |-> FALSE, value |-> file]

SetEntry(m, key, data) ==
    CASE key = "encoder.weight" -> [m EXCEPT !.encoder_weight = data]
      [] key = "decoder.weight" -> [m EXCEPT !.decoder_weight = data]
      [] key = "pre_bias" -> [m EXCEPT !.pre_bias = data]
      [] key = "latent_bias" -> [m EXCEPT !.latent_bias = data]
      [] key = "stats_last_nonzero" -> [m EXCEPT !.stats_last_nonzero = data]

RECURSIVE CopyEntries(_, _, _)
CopyEntries(m, sd, keys) ==
    IF keys = {} THEN m
    ELSE LET key == CHOOSE k \in keys : TRUE
         IN  CopyEntries(SetEntry(m, key, sd[key].data), sd, keys \ {key})

\* model.load_state_dict(state_dict), strict: entries of matching shape are
\* copied in place, then missing keys, unexpected keys and size mismatches
\* raise RuntimeError; an argument that is not a dict raises TypeError
LoadStateDict(m, loaded) ==
    IF loaded.kind # "state_dict" THEN [model |-> m, raised |-> TRUE]
    ELSE LET sd == loaded.tensors
             fits == {key \in Keys \cap DOMAIN sd :
                         sd[key].shape = ExpectedShape(m.n_dirs, m.d_model, key)}
         IN  [model |-> CopyEntries(m, sd, fits),
              raised |-> fits # Keys \/ DOMAIN sd # Keys]

\* a load that hands back whatever was populated, errors or not
LoadedOrNoneLenient(step) == Some(step.model)

\* return model on success; except Exception: print(...); return None
LoadedOrNone(step) == IF step.raised THEN None ELSE Some(step.model)

\* nn.Linear draws its initial weights at random
FreshWeights == {-1, 1}

\* load_sae_model's defaults k=2, auxk=4
LoadK == 2
LoadAuxk == 4
\* FastAutoencoder.__init__'s default dead_steps_threshold
DefaultThreshold == 266

\* FastAutoencoder(n_neurons, n_input_features, k, auxk) before any load
FreshModel(n_neurons, n_input_features, w, device) ==
    NewModel([n_dirs |-> n_neurons, d_model |-> n_input_features,
              encoder_weight |-> Filled(<<n_neurons, n_input_features>>, w).data,
              decoder_weight |-> Filled(<<n_input_features, n_neurons>>, w).data,
              pre_bias |-> Zeros(n_input_features),
              latent_bias |-> Zeros(n_neurons)],
             LoadK, Some(LoadAuxk), Some(128), DefaultThreshold, device)

LoadSaeModel(file, n_neurons, n_input_features, w, device) ==
    LET fresh == FreshModel(n_neurons, n_input_features, w, device)
        read == TorchLoad(file)
        step == IF read.raised THEN [model |-> fresh, raised |-> TRUE]
                ELSE LoadStateDict(fresh, read.value)
    IN  [out |-> LoadedOrNone(step), reported |-> step.raised]

LoadSaeModelCall ==
    /\ Idle
    /\ \E file \in Files, n_neurons \in Dims, n_input_features \in Dims,
          w \in FreshWeights :
         LET r == LoadSaeModel(file, n_neurons, n_input_features, w, model.device)
         IN  res' = [op |-> "load_sae_model", file |-> file, n_neurons |-> n_neurons,
                     n_input_features |-> n_input_features, raised |-> FALSE,
                     reported |-> r.reported, out |-> r.out]
    /\ UNCHANGED model
    /\ before' = model
    /\ UNCHANGED <<page, history, files>>

(***************************************************************************)
(* unit_norm_decoder_                                                      *)
(*                                                                         *)
(* Norms are square roots, so a weight is written here as num / sqrt(den), *)
(* the record [num, den]; den = 0 stands for nan, what 0 / 0 gives.  The   *)
(* entries of one column of decoder.weight share their den.                *)
(***************************************************************************)
Exact(w) == [num |-> w, den |-> 1]

NaN == [num |-> 0, den |-> 0]

\* the columns a decoder may hold, the all-zero column of an unused
\* dimension among them
DecoderColumns == {<<1, 0>>, <<3, 4>>, <<1, 1>>, <<0, -2>>, <<0, 0>>}

\* decoder.weight of shape (d_model, n_dirs) made of three such columns
DecoderWeights ==
    {Tensor([r \in 0..1 |-> Tensor([c \in 0..2 |-> Exact(cols[c + 1][r + 1])])]) :
        cols \in [1..3 -> DecoderColumns]}

\* the square of a sum of squares' root: sum of num^2 over the entries, which
\* share den
SumSquares(entries) ==
    SumUpTo([i \in DOMAIN entries |-> entries[i].num * entries[i].num], Size(entries))

\* weight.norm(dim=0, keepdim=True): the squared norm of each column, as
\* the fraction [num, den], at every place of that column
Norm(W) ==
    Tensor([r \in DOMAIN W |-> Tensor([c \in DOMAIN W[r] |->
        IF \E i \in DOMAIN W : W[i][c].den = 0 THEN NaN
        ELSE [num |-> SumSquares([i \in DOMAIN W |-> W[i][c]]), den |-> W[r][c].den]])])

\* weight.div_(norms): (n / sqrt(d)) / sqrt(P / Q) = n / sqrt(d * P / Q), and
\* nan where the norm is nan or 0 / 0 is asked for
Div(W, norms) ==
    Tensor([r \in DOMAIN W |-> Tensor([c \in DOMAIN W[r] |->
        LET e == W[r][c]
            n == norms[r][c]
        IN  IF e.den = 0 \/ n.den = 0 \/ n.num = 0 THEN NaN
            ELSE [num |-> e.num, den |-> (e.den * n.num) \div n.den]])])

\* unit_norm_decoder_(autoencoder): under torch.no_grad(),
\* decoder.weight.div_(decoder.weight.norm(dim=0, keepdim=True))
UnitNormDecoder(m) == [m EXCEPT !.decoder_weight = Div(@, Norm(@))]

UnitNormDecoderCall ==
    /\ Idle
    /\ model' = UnitNormDecoder(model)
    /\ res' = [op |-> "unit_norm_decoder_", raised |-> FALSE]
    /\ before' = model
    /\ UNCHANGED <<page, history, files>>

(***************************************************************************)
(* The page script: globals, palette and data sets                         *)
(***************************************************************************)
\* genreColors, in the order of its keys
genreColors ==
    << <<"hip hop", "#FF5733">>, <<"rap", "#C70039">>, <<"r&b", "#900C3F">>,
       <<"pop", "#FFC300">>, <<"country", "#5DADE2">>, <<"rock", "#2E4053">>,
       <<"electronic", "#58D68D">>, <<"dance", "#F1C40F">>, <<"trap", "#E74C3C">>,
       <<"punk", "#9B59B6">>, <<"metal", "#7D3C98">>, <<"folk", "#1ABC9C">>,
       <<"indie", "#3498DB">>, <<"soul", "#E67E22">>, <<"jazz", "#D35400">>,
       <<"blues", "#2980B9">>, <<"reggae", "#27AE60">>, <<"alternative rock", "#8E44AD">>,
       <<"post-punk", "#34495E">>, <<"progressive rock", "#16A085">>, <<"grunge", "#2C3E50">>,
       <<"hard rock", "#E74C3C">> >>

defaultColor == "#95A5A6"

neuronBaseColor == "#3498DB"

nonActivatedColor == "#E0E0E0"

\* let activationThreshold = 0.2, in tenths
InitialThreshold == 2

\* songActivations.slice(0, 10)
TopSongs == 10

\* genre.trim().toLowerCase() of the genre names of the data sets
Lower(genre) ==
    CASE genre = "Pop" -> "pop"
      [] genre = " Dance Pop" -> "dance pop"
      [] genre = "Hard Rock" -> "hard rock"
      [] OTHER -> genre

\* the palette keys k with genreLower.includes(k)
KeysIn(genreLower) ==
    CASE genreLower = "pop" -> {"pop"}
      [] genreLower = "dance pop" -> {"pop", "dance"}
      [] genreLower = "trap" -> {"rap", "trap"}
      [] genreLower = "hard rock" -> {"rock", "hard rock"}
      [] genreLower = "hip hop" -> {"hip hop"}
      [] OTHER -> {}

MinOf(S) == CHOOSE v \in S : \A w \in S : v <= w

\* the first entry of genreColors whose key the genre includes, 0 for none
FirstKey(genre) ==
    LET hits == {i \in 1..Len(genreColors) : genreColors[i][1] \in KeysIn(Lower(genre))}
    IN  IF hits = {} THEN 0 ELSE MinOf(hits)

\* getColor(genres)
getColor(genres) ==
    LET found == {g \in 1..Len(genres) : FirstKey(genres[g]) # 0}
    IN  IF found = {} THEN defaultColor
        ELSE genreColors[FirstKey(genres[MinOf(found)])][2]

Song(id, genres, artist) == [id |-> id, genres |-> genres, primary_artist |-> artist]

\* data.json with three songs, two neurons and an embedding for every song
SmallData ==
    [ songs |-> << Song(0, <<"Pop">>, "Ann"), Song(1, <<"classical", " Dance Pop">>, "Bob"),
                   Song(2, <<"trap", "hip hop">>, "Ann") >>,
      embeddings |-> {0, 1, 2},
      filters |-> [genres |-> <<"Pop", "classical", " Dance Pop", "trap", "hip hop">>,
                   artists |-> <<"Ann", "Bob">>],
      sae |-> Some([neurons |-> 2,
                    activations |-> << <<9, 0>>, <<2, 3>>, <<1, 3>> >>]) ]

\* data.json with twelve songs, one of them without an embedding
LongData ==
    [ songs |-> [i \in 1..12 |->
                    Song(i - 1, IF i % 3 = 0 THEN << >> ELSE IF i % 3 = 1 THEN <<"Hard Rock">>
                                ELSE <<"Pop", "trap">>,
                         IF i % 2 = 0 THEN "Ann" ELSE "Cy")],
      embeddings |-> (0..11) \ {4},
      filters |-> [genres |-> <<"Hard Rock", "Pop", "trap">>, artists |-> <<"Ann", "Cy">>],
      sae |-> Some([neurons |-> 2,
                    activations |-> [i \in 1..12 |-> <<(i * 3) % 7, (i % 2) * 5>>]]) ]

\* data.json without the sae section
BareData ==
    [ songs |-> << Song(0, <<"hip hop">>, "Bob"), Song(1, << >>, "Cy") >>,
      embeddings |-> {0, 1},
      filters |-> [genres |-> <<"hip hop">>, artists |-> <<"Bob", "Cy">>],
      sae |-> None ]

\* data.json with three songs, the second without an embedding, and one neuron
GapData ==
    [ songs |-> << Song(0, <<"Pop", "trap">>, "Ann"), Song(1, <<"Hard Rock">>, "Cy"),
                   Song(2, << >>, "Cy") >>,
      embeddings |-> {0, 2},
      filters |-> [genres |-> <<"Pop", "trap", "Hard Rock">>, artists |-> <<"Ann", "Cy">>],
      sae |-> Some([neurons |-> 1, activations |-> << <<3>>, <<0>>, <<12>> >>]) ]

DataSets == {SmallData, LongData, BareData}

ShortDataSets == {SmallData, GapData, BareData}

\* the globals and the document before DOMContentLoaded
NoPage ==
    [ visualizationData |-> None, originalSongs |-> << >>, filteredSongs |-> << >>,
      currentPlot |-> FALSE, currentNeuron |-> -1,
      activationThreshold |-> InitialThreshold, allNeuronSongs |-> None,
      genreSelected |-> {}, artistSelected |-> {},
      plot |-> [kind |-> "empty", points |-> << >>],
      legend |-> [shown |-> FALSE, entries |-> << >>],
      currentNeuronData |-> None, details |-> None, clicked |-> 0, drawnBy |-> "none",
      previousLength |-> 0, event |-> "none" ]

(***************************************************************************)
(* The page script: ranking, plot and legend                               *)
(***************************************************************************)
\* songActivations.sort((a, b) => a[1] - b[1]): ascending
SortedAscending(acts, d) ==
    LET n == Len(acts)
        rank(i) == Cardinality({j \in 1..n : \/ acts[j][d] < acts[i][d]
                                             \/ acts[j][d] = acts[i][d] /\ j < i})
    IN  [r \in 1..n |-> CHOOSE i \in 1..n : rank(i) = r - 1]

\* songActivations.sort((a, b) => b[1] - a[1]): descending, and stable, so
\* equal activations keep the order of the songs
SortedDescending(acts, d) ==
    LET n == Len(acts)
        rank(i) == Cardinality({j \in 1..n : \/ acts[j][d] > acts[i][d]
                                             \/ acts[j][d] = acts[i][d] /\ j < i})
    IN  [r \in 1..n |-> CHOOSE i \in 1..n : rank(i) = r - 1]

\* prepareAllNeuronSongs(): per neuron the first ten of the songs sorted by
\* activation, each with its index and its activation
prepareAllNeuronSongs(data) ==
    IF IsNone(data.sae) THEN None
    ELSE LET sae == data.sae[1]
             acts == sae.activations
         IN  Some([d \in 1..sae.neurons |->
                     LET order == SortedDescending(acts, d)
                     IN  [p \in 1..Min2(TopSongs, Len(acts)) |->
                            [index |-> order[p] - 1, activation |-> acts[order[p]][d]]]])

\* Array.from(usedGenres).sort(): the palette keys in string order
SortedKeys ==
    << "alternative rock", "blues", "country", "dance", "electronic", "folk", "grunge",
       "hard rock", "hip hop", "indie", "jazz", "metal", "pop", "post-punk",
       "progressive rock", "punk", "r&b", "rap", "reggae", "rock", "soul", "trap" >>

\* the inner loop of createGenreLegend for one genre: the first key the
\* genre includes that is not in the set yet is added
AddGenre(used, genre) ==
    LET hits == {i \in 1..Len(genreColors) :
                    /\ genreColors[i][1] \in KeysIn(Lower(genre))
                    /\ genreColors[i][1] \notin used}
    IN  IF hits = {} THEN used ELSE used \cup {genreColors[MinOf(hits)][1]}

RECURSIVE AddGenres(_, _, _)
AddGenres(used, genres, g) ==
    IF g > Len(genres) THEN used ELSE AddGenres(AddGenre(used, genres[g]), genres, g + 1)

RECURSIVE UsedGenres(_, _, _)
UsedGenres(used, songs, s) ==
    IF s > Len(songs) THEN used
    ELSE UsedGenres(AddGenres(used, songs[s].genres, 1), songs, s + 1)

NeuronShown(p) == p.currentNeuron >= 0 /\ ~IsNone(p.visualizationData[1].sae)

\* createGenreLegend(): the entries of the legend, top to bottom
createGenreLegend(p) ==
    IF NeuronShown(p)
    THEN [p EXCEPT !.legend = [shown |-> TRUE,
                               entries |-> << <<"High Activation", neuronBaseColor>>,
                                              <<"Low/No Activation", nonActivatedColor>> >>]]
    ELSE LET used == UsedGenres({}, p.filteredSongs, 1)
             keys == SelectSeq(SortedKeys, LAMBDA key : key \in used)
             colorOf(key) == genreColors[CHOOSE i \in 1..Len(genreColors) :
                                            genreColors[i][1] = key][2]
         IN  [p EXCEPT !.legend =
                [shown |-> TRUE,
                 entries |-> [e \in 1..Len(keys) |-> <<keys[e], colorOf(keys[e])>>]
                             \o << <<"Other/Unknown", defaultColor>> >>]]

\* the marker of one song as it would be with a strict threshold
MarkerStrict(p, song, index) ==
    IF NeuronShown(p)
    THEN LET activation == p.visualizationData[1].sae[1].activations[song.id + 1]
                                                               [p.currentNeuron + 1]
             intensity == Min2(10, activation)
         IN  IF activation > p.activationThreshold
             THEN [customdata |-> index, id |-> song.id, color |-> neuronBaseColor,
                   opacity |-> 40 + 6 * intensity, size |-> 80 + 8 * intensity,
                   activation |-> activation]
             ELSE [customdata |-> index, id |-> song.id, color |-> nonActivatedColor,
                   opacity |-> 30, size |-> 60, activation |-> activation]
    ELSE [customdata |-> index, id |-> song.id, color |-> getColor(song.genres),
          opacity |-> 80, size |-> 80, activation |-> 0]

\* the marker of one song: opacity in hundredths, size in tenths of a pixel
Marker(p, song, index) ==
    IF NeuronShown(p)
    THEN LET activation == p.visualizationData[1].sae[1].activations[song.id + 1]
                                                               [p.currentNeuron + 1]
             intensity == Min2(10, activation)
         IN  IF activation >= p.activationThreshold
             THEN [customdata |-> index, id |-> song.id, color |-> neuronBaseColor,
                   opacity |-> 40 + 6 * intensity, size |-> 80 + 8 * intensity,
                   activation |-> activation]
             ELSE [customdata |-> index, id |-> song.id, color |-> nonActivatedColor,
                   opacity |-> 30, size |-> 60, activation |-> activation]
    ELSE [customdata |-> index, id |-> song.id, color |-> getColor(song.genres),
          opacity |-> 80, size |-> 80, activation |-> 0]

\* plotData as it would be if the points were numbered after the songs
\* without an embedding are dropped
PlotDataRenumbered(p) ==
    LET songs == p.filteredSongs
        drawn == SelectSeq([i \in 1..Len(songs) |-> i - 1],
                           LAMBDA i : songs[i + 1].id \in p.visualizationData[1].embeddings)
    IN  [q \in 1..Len(drawn) |-> Marker(p, songs[drawn[q] + 1], q - 1)]

\* plotData = filteredSongs.map((song, index) => ...).filter(item => item !== null):
\* a marker per song with an embedding, numbered by its place in filteredSongs
PlotData(p) ==
    LET songs == p.filteredSongs
        drawn == SelectSeq([i \in 1..Len(songs) |-> i - 1],
                           LAMBDA i : songs[i + 1].id \in p.visualizationData[1].embeddings)
    IN  [q \in 1..Len(drawn) |-> Marker(p, songs[drawn[q] + 1], drawn[q])]

\* createVisualization(): the plot and the legend drawn from filteredSongs
createVisualization(p) ==
    LET songs == p.filteredSongs
        plotData == PlotData(p)
    IN  IF Len(songs) = 0
        THEN [p EXCEPT !.plot = [kind |-> "info", points |-> << >>],
                       !.legend.shown = FALSE]
        ELSE IF Len(plotData) = 0
        THEN [p EXCEPT !.plot = [kind |-> "error", points |-> << >>],
                       !.legend.shown = FALSE]
        ELSE createGenreLegend(
                [p EXCEPT !.plot = [kind |-> "points", points |-> plotData],
                          !.currentPlot = TRUE,
                          !.drawnBy = IF p.plot.kind = "empty" \/ ~p.currentPlot
                                      THEN "newPlot" ELSE "react"])

\* the DOMContentLoaded handler once data.json has arrived
Loaded(data) ==
    createVisualization(
        [NoPage EXCEPT !.visualizationData = Some(data),
                       !.originalSongs = data.songs,
                       !.filteredSongs = data.songs,
                       !.genreSelected = {"all"},
                       !.artistSelected = {"all"},
                       !.allNeuronSongs = prepareAllNeuronSongs(data),
                       !.event = "load"])

\* the handler when the fetch fails
LoadFailed == [NoPage EXCEPT !.plot = [kind |-> "error", points |-> << >>], !.event = "load"]

LoadPageFrom(sets) ==
    /\ page = NoPage
    /\ \E data \in sets, ok \in BOOLEAN :
          page' = IF ok THEN Loaded(data) ELSE LoadFailed
    /\ UNCHANGED <<model, before, res, history, files>>

LoadPage == LoadPageFrom(DataSets)

LoadShortPage == LoadPageFrom(ShortDataSets)

(***************************************************************************)
(* The page script: the genre and artist filters                           *)
(***************************************************************************)
Range(s) == {s[i] : i \in 1..Len(s)}

\* the options of the two multi-selects: 'all' first, then what
\* initializeFilters appends from data.filters
genreOptions(p) == <<"all">> \o p.visualizationData[1].filters.genres

artistOptions(p) == <<"all">> \o p.visualizationData[1].filters.artists

\* what a user may have selected in a multi-select: nothing, one or two options
Selections(options) == {S \in SUBSET Range(options) : Cardinality(S) <= 2}

\* getSelectedValues(selectElement): the values of the selected options, in
\* the order of the options
getSelectedValues(options, selected) == SelectSeq(options, LAMBDA o : o \in selected)

\* 'all' alone, or the first or the last of the options appended
FewSelections(options) == {{options[1]}, {options[2]}, {options[Len(options)]}}

\* the user changes what is selected in the two filters, to one of the
\* selections that choices allows
SelectAmong(choices(_)) ==
    /\ ~IsNone(page.visualizationData)
    /\ \E genres \in choices(genreOptions(page)),
          artists \in choices(artistOptions(page)) :
          /\ <<genres, artists>> # <<page.genreSelected, page.artistSelected>>
          /\ page' = [page EXCEPT !.genreSelected = genres, !.artistSelected = artists,
                                  !.event = "select", !.clicked = 0,
                                     !.previousLength = 0]
    /\ UNCHANGED <<model, before, res, history, files>>

SelectOptions == SelectAmong(Selections)

SelectFewOptions == SelectAmong(FewSelections)

\* the callback of allSongs.filter in filterData
Matches(song, selectedGenres, selectedArtists) ==
    LET includeAllGenres == "all" \in Range(selectedGenres) \/ Len(selectedGenres) = 0
        includeAllArtists == "all" \in Range(selectedArtists) \/ Len(selectedArtists) = 0
        genreMatch == \/ includeAllGenres
                      \/ \E g \in 1..Len(song.genres) : song.genres[g] \in Range(selectedGenres)
        artistMatch == IF includeAllArtists THEN TRUE
                       ELSE song.primary_artist \in Range(selectedArtists)
    IN  genreMatch /\ artistMatch

\* filterData() as it would be if it narrowed the songs shown so far
filterDataNarrowing(p) ==
    LET selectedGenres == getSelectedValues(genreOptions(p), p.genreSelected)
        selectedArtists == getSelectedValues(artistOptions(p), p.artistSelected)
        kept == SelectSeq(p.filteredSongs,
                          LAMBDA song : Matches(song, selectedGenres, selectedArtists))
        q == [p EXCEPT !.previousLength = Len(p.filteredSongs), !.filteredSongs = kept,
                       !.clicked = 0, !.event = "filter"]
    IN  IF Len(kept) = 0
        THEN [q EXCEPT !.plot = [kind |-> "warning", points |-> << >>],
                       !.legend.shown = FALSE]
        ELSE createVisualization([q EXCEPT !.currentPlot = FALSE,
                                           !.plot = [kind |-> "empty", points |-> << >>]])

\* filterData()
filterData(p) ==
    LET selectedGenres == getSelectedValues(genreOptions(p), p.genreSelected)
        selectedArtists == getSelectedValues(artistOptions(p), p.artistSelected)
        includeAllGenres == "all" \in Range(selectedGenres) \/ Len(selectedGenres) = 0
        includeAllArtists == "all" \in Range(selectedArtists) \/ Len(selectedArtists) = 0
        kept == SelectSeq(p.originalSongs,
                          LAMBDA song : Matches(song, selectedGenres, selectedArtists))
        q == [p EXCEPT !.previousLength = Len(p.filteredSongs), !.filteredSongs = kept,
                       !.clicked = 0, !.event = "filter"]
    IN  IF includeAllGenres /\ includeAllArtists
        THEN createVisualization([p EXCEPT !.filteredSongs = p.originalSongs,
                                           !.currentPlot = FALSE,
                                           !.plot = [kind |-> "empty", points |-> << >>],
                                           !.clicked = 0, !.previousLength = 0,
                                           !.event = "filter"])
        ELSE IF Len(kept) = 0
        THEN [q EXCEPT !.plot = [kind |-> "warning", points |-> << >>],
                       !.legend.shown = FALSE]
        ELSE createVisualization([q EXCEPT !.currentPlot = FALSE,
                                           !.plot = [kind |-> "empty", points |-> << >>]])

\* a click on 'Apply Filters'; the listener exists once the data is loaded
ApplyFilters ==
    /\ ~IsNone(page.visualizationData)
    /\ page' = filterData(page)
    /\ UNCHANGED <<model, before, res, history, files>>

(***************************************************************************)
(* The page script: neuron, threshold, reset and click                     *)
(***************************************************************************)
\* the positions of the threshold slider, in tenths
Thresholds == {0, 2, 3}

HasSae(p) == ~IsNone(p.visualizationData) /\ ~IsNone(p.visualizationData[1].sae)

\* the 'change' listener of neuron-filter, which initializeSAEControls adds
SelectNeuron ==
    /\ HasSae(page)
    /\ \E n \in -1..(page.visualizationData[1].sae[1].neurons - 1) :
          /\ n # page.currentNeuron
          /\ page' = createVisualization(
                        [page EXCEPT !.currentNeuron = n,
                                     !.currentNeuronData = IF n >= 0 THEN Some(n) ELSE None,
                                     !.event = "neuron", !.clicked = 0,
                                     !.previousLength = 0])
    /\ UNCHANGED <<model, before, res, history, files>>

\* the 'input' listener of threshold-slider: it redraws only while a neuron
\* is selected
SetThreshold ==
    /\ HasSae(page)
    /\ \E t \in Thresholds :
          /\ t # page.activationThreshold
          /\ LET p == [page EXCEPT !.activationThreshold = t, !.event = "threshold",
                                   !.clicked = 0, !.previousLength = 0]
             IN  page' = IF p.currentNeuron >= 0 THEN createVisualization(p) ELSE p
    /\ UNCHANGED <<model, before, res, history, files>>

\* resetFilters() as it would be if it kept the neuron controls as they are
resetFiltersKeepingNeuron(p) ==
    createVisualization(
        [p EXCEPT !.plot = [kind |-> "empty", points |-> << >>],
                  !.currentPlot = FALSE,
                  !.genreSelected = {genreOptions(p)[1]},
                  !.artistSelected = {artistOptions(p)[1]},
                  !.filteredSongs = p.originalSongs,
                  !.event = "reset", !.clicked = 0,
                                     !.previousLength = 0])

\* resetFilters(), with the neuron-filter element in the document
resetFilters(p) ==
    createVisualization(
        [p EXCEPT !.plot = [kind |-> "empty", points |-> << >>],
                  !.currentPlot = FALSE,
                  !.genreSelected = {genreOptions(p)[1]},
                  !.artistSelected = {artistOptions(p)[1]},
                  !.currentNeuron = -1,
                  !.currentNeuronData = None,
                  !.activationThreshold = InitialThreshold,
                  !.filteredSongs = p.originalSongs,
                  !.event = "reset", !.clicked = 0,
                                     !.previousLength = 0])

\* a click on 'Reset Filters'; the listener exists once the data is loaded
ResetFilters ==
    /\ ~IsNone(page.visualizationData)
    /\ page' = resetFilters(page)
    /\ UNCHANGED <<model, before, res, history, files>>

\* displaySongDetails(song): the song shown in the sidebar, with its
\* activation while a neuron is selected
displaySongDetails(p, song) ==
    [p EXCEPT !.details =
        Some([song |-> song,
              activation |-> IF NeuronShown(p)
                             THEN Some(p.visualizationData[1].sae[1].activations
                                          [song.id + 1][p.currentNeuron + 1])
                             ELSE None])]

\* the plotly_click handler on the point at position q of the trace
ClickPoint ==
    /\ page.plot.kind = "points"
    /\ \E q \in 1..Len(page.plot.points) :
          LET songIndex == page.plot.points[q].customdata
              p == [page EXCEPT !.clicked = q, !.previousLength = 0, !.event = "click"]
          IN  page' = IF songIndex + 1 \in DOMAIN p.filteredSongs
                      THEN displaySongDetails(p, p.filteredSongs[songIndex + 1])
                      ELSE p
    /\ UNCHANGED <<model, before, res, history, files>>

(***************************************************************************)
(* The lyrics store of lyrics_utils.py.  A path under base_dir is          *)
(* <<artist_slug, track_slug, extension>>; base_dir itself is the same in  *)
(* every call.  A text is a sequence of characters, CR and LF standing for *)
(* carriage return and line feed.  A .txt file holds its text, a .txt.gz   *)
(* file holds the gzip stream of its text.                                 *)
(***************************************************************************)
CR == "CR"

LF == "LF"

\* lyrics handed to save_lyrics
Lyrics == {<<"a">>, <<"b">>, <<"a", CR, LF, "b">>}

\* artist names handed to the utilities; two of them share a slug
Artists == {"Ann", "ann!", "Cy"}

\* track names handed to the utilities
Tracks == {"Hey Ya"}

\* the directory with no file in it
NoFiles == [p \in {} |-> << >>]

\* slugify: lower(), drop what is neither word character, whitespace nor
\* hyphen, whitespace runs to one hyphen, strip('-')
slugify(text) ==
    CASE text = "Ann" -> "ann"
      [] text = "ann!" -> "ann"
      [] text = "Cy" -> "cy"
      [] text = "Hey Ya" -> "hey-ya"
      [] OTHER -> text

\* get_lyrics_path: the expected_path member of the returned tuple
get_lyrics_path(artist, track) == <<slugify(artist), slugify(track), ".txt">>

\* f"{filepath}.gz"
GzippedFilepath(filepath) ==
    <<filepath[1], filepath[2],
      CASE filepath[3] = ".txt" -> ".txt.gz"
        [] OTHER -> ".txt.gz.gz">>

\* os.linesep of the platform the module was compiled on
linesep == <<LF>>

\* text-mode write (newline=None): every line feed becomes os.linesep
RECURSIVE TextWrite(_)
TextWrite(text) ==
    IF text = << >> THEN << >>
    ELSE (IF Head(text) = LF THEN linesep ELSE <<Head(text)>>)
            \o TextWrite(Tail(text))

\* text-mode read (newline=None): CR LF and a lone CR become one line feed
RECURSIVE TextRead(_)
TextRead(content) ==
    IF content = << >> THEN << >>
    ELSE IF Head(content) = CR
         THEN <<LF>> \o TextRead(IF Len(content) >= 2 /\ content[2] = LF
                                 THEN SubSeq(content, 3, Len(content))
                                 ELSE Tail(content))
         ELSE <<Head(content)>> \o TextRead(Tail(content))

\* gzip.open(path, 'wt'): the file holds the compressed stream of the text
Gzip(content) == [gzip |-> content]

\* gzip.open(path, 'rt'): the text the compressed stream holds
Gunzip(stream) == stream.gzip

\* open(path, 'w' / 'wt') ... write: the file is created or truncated
WriteFile(fs, path, content) ==
    [p \in DOMAIN fs \cup {path} |-> IF p = path THEN content ELSE fs[p]]

\* os.remove(path)
RemoveFile(fs, path) == [p \in DOMAIN fs \ {path} |-> fs[p]]

\* read_lyrics_file: the plain file if it exists, else the gzipped one,
\* else None
read_lyrics_file(fs, filepath) ==
    IF filepath \in DOMAIN fs
    THEN Some(TextRead(fs[filepath]))
    ELSE LET gzipped_filepath == GzippedFilepath(filepath)
         IN  IF gzipped_filepath \in DOMAIN fs
             THEN Some(TextRead(Gunzip(fs[gzipped_filepath])))
             ELSE None

\* save_lyrics: writes <track_slug>.txt.gz when compress, else
\* <track_slug>.txt, in the artist's directory; touches no other file
save_lyrics(fs, lyrics, artist_name, song_name, compress) ==
    LET artist_slug == slugify(artist_name)
        track_slug == slugify(song_name)
    IN  IF compress
        THEN WriteFile(fs, <<artist_slug, track_slug, ".txt.gz">>,
                       Gzip(TextWrite(lyrics)))
        ELSE WriteFile(fs, <<artist_slug, track_slug, ".txt">>,
                       TextWrite(lyrics))

lyrics_exists(fs, artist, track) ==
    LET expected_path == get_lyrics_path(artist, track)
    IN  expected_path \in DOMAIN fs \/ GzippedFilepath(expected_path) \in DOMAIN fs

get_lyrics(fs, artist, track) ==
    read_lyrics_file(fs, get_lyrics_path(artist, track))

\* the loop body with the gzipped file left alone when it is already there
CompressOneKeepingGz(fs, filepath) ==
    IF GzippedFilepath(filepath) \in DOMAIN fs
    THEN RemoveFile(fs, filepath)
    ELSE RemoveFile(WriteFile(fs, GzippedFilepath(filepath),
                              Gzip(TextWrite(TextRead(fs[filepath])))),
                    filepath)

\* the loop body of compress_lyrics_directory for one .txt file: read it,
\* write the gzipped file next to it, remove it
CompressOne(fs, filepath) ==
    LET content == TextRead(fs[filepath])
        gzipped_filepath == GzippedFilepath(filepath)
    IN  RemoveFile(WriteFile(fs, gzipped_filepath, Gzip(TextWrite(content))),
                   filepath)

\* the walk over the .txt files that were listed, in some listing order
RECURSIVE CompressWalk(_, _, _)
CompressWalk(fs, listed, count) ==
    IF listed = {}
    THEN [files |-> fs, compressed_count |-> count, total_count |-> count]
    ELSE LET filepath == CHOOSE p \in listed : TRUE
         IN  CompressWalk(CompressOne(fs, filepath), listed \ {filepath},
                          count + 1)

\* compress_lyrics_directory: every file whose name ends with .txt
compress_lyrics_directory(fs) ==
    CompressWalk(fs, {p \in DOMAIN fs : p[3] = ".txt"}, 0)

SaveLyrics ==
    /\ \E lyrics \in Lyrics, artist \in Artists, song \in Tracks,
          compress \in BOOLEAN :
          /\ files' = save_lyrics(files, lyrics, artist, song, compress)
          /\ res' = [op |-> "save_lyrics", raised |-> FALSE, lyrics |-> lyrics,
                     artist |-> artist, song |-> song, compress |-> compress]
    /\ UNCHANGED <<model, before, page, history>>

GetLyrics ==
    /\ \E artist \in Artists, track \in Tracks :
          res' = [op |-> "get_lyrics", raised |-> FALSE, artist |-> artist,
                  track |-> track, value |-> get_lyrics(files, artist, track)]
    /\ UNCHANGED <<model, before, page, history, files>>

LyricsExists ==
    /\ \E artist \in Artists, track \in Tracks :
          res' = [op |-> "lyrics_exists", raised |-> FALSE, artist |-> artist,
                  track |-> track,
                  value |-> lyrics_exists(files, artist, track)]
    /\ UNCHANGED <<model, before, page, history, files>>

CompressLyricsDirectory ==
    /\ LET done == compress_lyrics_directory(files)
       IN  /\ files' = done.files
           /\ res' = [op |-> "compress_lyrics_directory", raised |-> FALSE,
                      compressed_count |-> done.compressed_count,
                      total_count |-> done.total_count]
    /\ UNCHANGED <<model, before, page, history>>

\* one store, untouched while the page is used
InitPage ==
    /\ model = NewModel(Blob(Vec(<<0, 0, 0>>)), 1, Some(2), None, 0, "cpu")
    /\ before = model
    /\ page = NoPage
    /\ history = << >>
    /\ files = NoFiles
    /\ res = [op |-> "none"]

NextFilter ==
    \/ LoadPage
    \/ SelectOptions
    \/ ApplyFilters

\* the page from its load on, with selections made and filters applied
SpecFilter == InitPage /\ [][NextFilter]_vars

Init ==
    /\ \E blob \in Blobs, auxk \in AuxkChoices, multik \in MultikChoices,
          threshold \in ThresholdChoices, device \in Devices :
          \E k \in KChoices(blob.n_dirs) :
             model = NewModel(blob, k, auxk, multik, threshold, device)
    /\ before = model
    /\ page = NoPage
    /\ history = << >>
    /\ files = NoFiles
    /\ res = [op |-> "none"]

Next ==
    \/ Forward
    \/ Return

\* forward passes on every configuration of the store
Spec == Init /\ [][Next]_vars

\* stores with k = 1, auxk = 2 and no multik, on either backend
InitDecode ==
    /\ \E bias \in {Vec(<<0, 0, 0>>), Vec(<<1, 0, -1>>)}, device \in Devices :
          model = NewModel(Blob(bias), 1, Some(2), None, 0, device)
    /\ before = model
    /\ page = NoPage
    /\ history = << >>
    /\ files = NoFiles
    /\ res = [op |-> "none"]

NextDecode ==
    \/ Forward
    \/ DecodeSparseCall
    \/ DecodeClampCall
    \/ DecodeAtKCall
    \/ ComputeActivationsCall
    \/ Return

\* the decode entry points and the batch activation computer, between
\* forward passes
SpecDecode == InitDecode /\ [][NextDecode]_vars

NextSparse ==
    \/ DecodeSparseCall
    \/ Return

\* decode_sparse alone: it reads decoder_weight and pre_bias only
SpecSparse == InitDecode /\ [][NextSparse]_vars

NextLoad ==
    \/ LoadSaeModelCall
    \/ Return

\* load_sae_model, which builds its own store and hands it to the caller
SpecLoad == InitDecode /\ [][NextLoad]_vars

NextConcurrent ==
    \/ Forward
    \/ Spawn
    \/ CallerStep
    \/ Return

\* decode and activation calls interleaved on one store, between forward passes
SpecConcurrent == InitDecode /\ [][NextConcurrent]_vars

\* stores configured with k or auxk at or below zero, next to sound ones
InitMisuse ==
    /\ \E bias \in {Vec(<<0, 0, 0>>), Vec(<<1, 0, -1>>)}, k \in {-1, 0, 1},
          auxk \in {None, Some(-1), Some(0), Some(2)}, device \in Devices :
          model = NewModel(Blob(bias), k, auxk, None, 0, device)
    /\ before = model
    /\ page = NoPage
    /\ history = << >>
    /\ files = NoFiles
    /\ res = [op |-> "none"]

NextMisuse ==
    \/ Forward
    \/ ForwardMisshaped
    \/ ComputeActivationsCall
    \/ ComputeActivationsMisused
    \/ Return

\* calls with arguments or settings outside their domain
SpecMisuse == InitMisuse /\ [][NextMisuse]_vars

InitActivations ==
    /\ \E blob \in Blobs :
          model = NewModel(blob, 1, Some(2), None, 0, "cpu")
    /\ before = model
    /\ page = NoPage
    /\ history = << >>
    /\ files = NoFiles
    /\ res = [op |-> "none"]

NextActivations ==
    \/ Forward
    \/ ComputeActivationsCall
    \/ GetTopkActivationsCall
    \/ Return

\* the batch activation computer, between forward passes
SpecActivations == InitActivations /\ [][NextActivations]_vars

\* stores with k = 1 or 2, which rank the items of a collection
InitRanking ==
    /\ \E bias \in {Vec(<<0, 0, 0>>), Vec(<<1, 0, -1>>), Vec(<<-1, 1, 1>>)}, k \in {1, 2} :
          model = NewModel(Blob(bias), k, Some(2), None, 0, "cpu")
    /\ before = model
    /\ page = NoPage
    /\ history = << >>
    /\ files = NoFiles
    /\ res = [op |-> "none"]

NextRanking ==
    \/ GetTopkActivationsCall
    \/ LoadPage
    \/ Return

\* the two rankings of the activation matrix: get_topk_activations on the
\* store and prepareAllNeuronSongs on the page
SpecRanking == InitRanking /\ [][NextRanking]_vars

NextPage ==
    \/ LoadShortPage
    \/ SelectFewOptions
    \/ ApplyFilters
    \/ SelectNeuron
    \/ SetThreshold
    \/ ResetFilters
    \/ ClickPoint

\* the page from its load on, under every event it listens to
SpecPage == InitPage /\ [][NextPage]_vars

\* stores whose decoder holds the weights to be normalised
InitNorm ==
    /\ \E W \in DecoderWeights :
          model = [NewModel(Blob(Vec(<<0, 0, 0>>)), 1, Some(2), None, 0, "cpu")
                      EXCEPT !.decoder_weight = W]
    /\ before = model
    /\ page = NoPage
    /\ history = << >>
    /\ files = NoFiles
    /\ res = [op |-> "none"]

NextNorm ==
    \/ UnitNormDecoderCall
    \/ Return

\* the normalization utility, called any number of times
SpecNorm == InitNorm /\ [][NextNorm]_vars

\* freshly constructed stores, with a threshold below, at and above zero
InitStaleness ==
    /\ \E k \in {1, 2}, threshold \in {-1, 0, 1} :
          model = NewModel(Blob(Vec(<<0, 0, 0>>)), k, Some(2), None, threshold, "cpu")
    /\ before = model
    /\ page = NoPage
    /\ history = << >>
    /\ files = NoFiles
    /\ res = [op |-> "none"]

NextStaleness ==
    \/ ForwardLogged
    \/ Return

\* forward passes from construction on, with their log
SpecStaleness == InitStaleness /\ [][NextStaleness]_vars

\* the lyrics utilities on a directory that starts empty
InitLyrics ==
    /\ model = NewModel(Blob(Vec(<<0, 0, 0>>)), 1, Some(2), None, 0, "cpu")
    /\ before = model
    /\ page = NoPage
    /\ history = << >>
    /\ files = NoFiles
    /\ res = [op |-> "none"]

NextLyrics ==
    \/ SaveLyrics
    \/ GetLyrics
    \/ LyricsExists
    \/ CompressLyricsDirectory

SpecLyrics == InitLyrics /\ [][NextLyrics]_vars

(***************************************************************************)
(* Properties of forward                                                   *)
(***************************************************************************)
ForwardReturned == res.op = "forward" /\ ~res.raised

Items == 1..Len(res.out)

\* the union of the batch's primary-code indices
PrimaryUnion ==
    UNION {{res.out[i].topk_indices[p] : p \in 1..Len(res.out[i].topk_indices)} : i \in Items}

IsDead(m, d) == m.stats_last_nonzero[d] > m.dead_steps_threshold

DeadCount(m) == Cardinality({d \in DOMAIN m.stats_last_nonzero : IsDead(m, d)})

\* C1: with 1 <= k <= n_dirs, the primary code of every item has exactly k
\* pairwise distinct indices in [0, n_dirs) and exactly k values, each >= 0
C1_PrimaryCodeShape ==
    (ForwardReturned /\ 1 <= model.k /\ model.k <= model.n_dirs) =>
        \A i \in Items :
            LET idx == res.out[i].topk_indices
                val == res.out[i].topk_values
            IN  /\ Len(idx) = model.k
                /\ Len(val) = model.k
                /\ \A p \in 1..Len(idx) : idx[p] >= 0 /\ idx[p] < model.n_dirs
                /\ \A p, q \in 1..Len(idx) : p # q => idx[p] # idx[q]
                /\ \A p \in 1..Len(val) : val[p] >= 0

\* a batch of two items, k = 2, one selected entry with a negative pre-activation
C1_Witness ==
    /\ ForwardReturned
    /\ Len(res.x) = 2
    /\ model.k = 2
    /\ \E i \in Items : \E p \in 1..2 :
          res.out[i].latents_pre_act[res.out[i].topk_indices[p]] < 0

\* C2: the primary code selects the k largest pre-activations: no unselected
\* position has a pre-activation strictly greater than a selected one, the
\* value reported for a selected position i is max(0, pre_act[i]), and the
\* dense post-activation vector is zero at every unselected position
C2_TopKSelection ==
    ForwardReturned =>
        \A i \in Items :
            LET idx == res.out[i].topk_indices
                val == res.out[i].topk_values
                pre == res.out[i].latents_pre_act
                post == res.out[i].latents_post_act
                sel == {idx[p] : p \in 1..Len(idx)}
            IN  /\ \A u \in (DOMAIN pre) \ sel : \A d \in sel : pre[u] <= pre[d]
                /\ \A p \in 1..Len(idx) : val[p] = Relu(pre[idx[p]])
                /\ \A p \in 1..Len(idx) : post[idx[p]] = val[p]
                /\ \A u \in (DOMAIN pre) \ sel : post[u] = 0

\* the scenario of the specification, in integers: pre-activation (0, 1, -1)
\* with k = 2 gives indices (1, 0), values (1, 0) and zero at index 2
C2_Witness ==
    /\ ForwardReturned
    /\ model.k = 2
    /\ \E i \in Items :
          /\ res.out[i].latents_pre_act = Vec(<<0, 1, -1>>)
          /\ res.out[i].topk_indices = <<1, 0>>
          /\ res.out[i].topk_values = <<1, 0>>
          /\ res.out[i].latents_post_act = Vec(<<0, 1, 0>>)

\* C3: after a forward pass every dimension in the union of the batch's
\* primary-code indices has dead_steps = 0, and every other dimension has its
\* dead_steps increased by exactly one (one per call, whatever the batch size)
C3_DeadStepsUpdate ==
    ForwardReturned =>
        \A d \in DOMAIN model.stats_last_nonzero :
            IF d \in PrimaryUnion
            THEN model.stats_last_nonzero[d] = 0
            ELSE model.stats_last_nonzero[d] = before.stats_last_nonzero[d] + 1

\* a batch of two items that resets a counter that had grown and leaves
\* another dimension unselected
C3_Witness ==
    /\ ForwardReturned
    /\ Len(res.x) = 2
    /\ \E d \in PrimaryUnion : before.stats_last_nonzero[d] > 0
    /\ \E d \in DOMAIN model.stats_last_nonzero :
          d \notin PrimaryUnion /\ model.stats_last_nonzero[d] = 2

AuxPresent(i) == ~IsNone(res.out[i].auxk_indices)

AuxIndices(i) == res.out[i].auxk_indices[1]

AuxValues(i) == res.out[i].auxk_values[1]

\* C4 as stated: every index of the auxiliary code is a dimension flagged dead
C4_AuxIndicesAllDead ==
    ForwardReturned =>
        \A i \in Items :
            AuxPresent(i) =>
                \A p \in 1..Len(AuxIndices(i)) : IsDead(model, AuxIndices(i)[p])

\* C4, amended: every index of the auxiliary code that carries a non-zero
\* value is a dimension flagged dead; a dimension that is not dead appears
\* only with the value 0
C4_AuxNonZeroOnlyDead ==
    ForwardReturned =>
        \A i \in Items :
            AuxPresent(i) =>
                \A p \in 1..Len(AuxIndices(i)) :
                    AuxValues(i)[p] # 0 => IsDead(model, AuxIndices(i)[p])

\* an auxiliary code that holds a dead dimension with a positive value next
\* to a dimension that is not dead
C4_Witness ==
    /\ ForwardReturned
    /\ \E i \in Items :
          /\ AuxPresent(i)
          /\ \E p \in 1..Len(AuxIndices(i)) :
                AuxValues(i)[p] > 0 /\ IsDead(model, AuxIndices(i)[p])
          /\ \E p \in 1..Len(AuxIndices(i)) : ~IsDead(model, AuxIndices(i)[p])

\* C5 as stated: the auxiliary code has exactly min(auxk, dead_count) entries
\* per item, and is empty or absent when no dimension is dead
C5_AuxCountDeadCount ==
    ForwardReturned =>
        \A i \in Items :
            IF AuxPresent(i)
            THEN Len(AuxIndices(i)) = Min2(model.auxk[1], DeadCount(model))
            ELSE IsNone(model.auxk) \/ DeadCount(model) = 0

\* C5, amended: when auxk is set the auxiliary code has exactly
\* min(auxk, n_dirs) entries per item, whatever the number of dead
\* dimensions, of which at most min(auxk, dead_count) are non-zero (none
\* when no dimension is dead); it is absent exactly when auxk is None
C5_AuxCountWidth ==
    ForwardReturned =>
        \A i \in Items :
            IF IsNone(model.auxk)
            THEN ~AuxPresent(i) /\ IsNone(res.out[i].auxk_values)
            ELSE /\ AuxPresent(i)
                 /\ Len(AuxIndices(i)) = Min2(model.auxk[1], model.n_dirs)
                 /\ Len(AuxValues(i)) = Len(AuxIndices(i))
                 /\ Cardinality({p \in 1..Len(AuxValues(i)) : AuxValues(i)[p] # 0})
                        <= Min2(model.auxk[1], DeadCount(model))

\* auxk = 2 with a single dead dimension: two entries, one of them non-zero
C5_Witness ==
    /\ ForwardReturned
    /\ model.auxk = Some(2)
    /\ DeadCount(model) = 1
    /\ \E i \in Items :
          /\ Len(AuxIndices(i)) = 2
          /\ Cardinality({p \in 1..2 : AuxValues(i)[p] # 0}) = 1

(***************************************************************************)
(* Properties of the decode entry points                                   *)
(***************************************************************************)
Returned(op) == res.op = op /\ ~res.raised

NonNegative(v) == \A d \in DOMAIN v : v[d] >= 0

ReluVec(v) == Tensor([d \in DOMAIN v |-> Relu(v[d])])

\* C6 as stated: for every dense latent vector, negative entries included,
\* decode_at_k(dense, n_dirs) equals the direct dense decoding
C6_FullWidthIsDense ==
    (Returned("decode_at_k") /\ res.k = model.n_dirs) =>
        res.out = Decode(model, res.latents)

\* C6, amended: decode_at_k(dense, n_dirs) equals the direct dense decoding of
\* the vector with its negative entries set to zero; it equals the decoding
\* of dense itself for every vector without negative entries
C6_FullWidthIsClampedDense ==
    (Returned("decode_at_k") /\ res.k = model.n_dirs) =>
        /\ res.out = Decode(model, ReluVec(res.latents))
        /\ NonNegative(res.latents) => res.out = Decode(model, res.latents)

\* full width on a vector with a positive and a negative entry
C6_Witness ==
    /\ Returned("decode_at_k")
    /\ res.k = model.n_dirs
    /\ \E d \in DOMAIN res.latents : res.latents[d] < 0
    /\ \E d \in DOMAIN res.latents : res.latents[d] > 0
    /\ res.out # Decode(model, res.latents)

\* C7 as stated: decode_clamp(v, w) keeps the top min(w, n_dirs) entries of v
\* and returns the reconstruction of decode_at_k(v, w)
C7_ClampIsAtK ==
    Returned("decode_clamp") =>
        res.out \in DecodeAtK(model, res.latents, res.clamp)

\* C7, amended: decode_clamp(v, c) keeps the top min(64, n_dirs) entries of v,
\* clamped at zero, whatever c is, multiplies them by c and decodes:
\* decode_clamp(v, c) - pre_bias = c * (decode_at_k(v, 64) - pre_bias)
C7_ClampScalesFixedWidth ==
    Returned("decode_clamp") =>
        \A full \in DecodeAtK(model, res.latents, ClampTopK) :
            VecSub(res.out, model.pre_bias)
                = VecScale(res.clamp, VecSub(full, model.pre_bias))

\* second argument 1 on a vector with two positive entries: both are kept
C7_Witness ==
    /\ Returned("decode_clamp")
    /\ res.clamp = 1
    /\ Cardinality({d \in DOMAIN res.latents : res.latents[d] > 0}) = 2
    /\ res.out = Decode(model, ReluVec(res.latents))
    /\ res.out \notin DecodeAtK(model, res.latents, 1)

Distinct(idx) == \A p, q \in 1..Len(idx) : p # q => idx[p] # idx[q]

SeqScale(c, v) == [p \in 1..Len(v) |-> c * v[p]]

SeqAdd(v, w) == [p \in 1..Len(v) |-> v[p] + w[p]]

\* C8: decode_sparse is linear in values once the bias is removed: for
\* pairwise distinct indices, with v1 the values of the call and v2 any other
\* values, decode(indices, a*v1 + b*v2) - pre_bias
\* = a*(decode(indices, v1) - pre_bias) + b*(decode(indices, v2) - pre_bias)
C8_DecodeSparseLinear ==
    (Returned("decode_sparse") /\ Distinct(res.indices)) =>
        \A a, b \in LatentVals :
            \A v2 \in SeqsOfLen(LatentVals, Len(res.indices)) :
                \A d2 \in DecodeSparse(model, res.indices, v2),
                   d \in DecodeSparse(model, res.indices,
                                      SeqAdd(SeqScale(a, res.values), SeqScale(b, v2))) :
                    VecSub(d, model.pre_bias)
                        = VecAdd(VecScale(a, VecSub(res.out, model.pre_bias)),
                                 VecScale(b, VecSub(d2, model.pre_bias)))

\* values (1, -1) on two distinct indices with a decoding other than the bias
C8_Witness ==
    /\ Returned("decode_sparse")
    /\ Distinct(res.indices)
    /\ res.values = <<1, -1>>
    /\ res.out # model.pre_bias

\* C9: decode_sparse, decode_clamp and decode_at_k leave the Parameter Store
\* as it was before the call: dead_steps, encoder_weight, decoder_weight,
\* pre_bias and latent_bias
C9_DecodeLeavesStore ==
    (res.op \in {"decode_sparse", "decode_clamp", "decode_at_k"}) =>
        /\ model.stats_last_nonzero = before.stats_last_nonzero
        /\ model.encoder_weight = before.encoder_weight
        /\ model.decoder_weight = before.decoder_weight
        /\ model.pre_bias = before.pre_bias
        /\ model.latent_bias = before.latent_bias

\* a decode call on a store whose counters a forward pass has moved
C9_Witness ==
    /\ res.op = "decode_clamp"
    /\ \E d \in DOMAIN model.stats_last_nonzero : model.stats_last_nonzero[d] > 0
    /\ \E d \in DOMAIN model.stats_last_nonzero : model.stats_last_nonzero[d] = 0

(***************************************************************************)
(* Properties of compute_activations                                       *)
(***************************************************************************)
\* C10: for a non-empty collection and any two positive chunk sizes,
\* compute_activations returns the same matrix: one row per item, in the
\* order of the items, none skipped or repeated at a chunk boundary
C10_ChunkSizeIrrelevant ==
    Returned("compute_activations") =>
        /\ Len(res.out) = Len(res.x)
        /\ \A r \in 1..Len(res.x) : res.out[r] = ReluVec(Encode(model, res.x[r]))
        /\ \A c \in 1..MaxChunk : ComputeActivations(model, res.x, c) = res.out

\* three items in chunks of two: a full chunk and a short last one, with
\* rows that differ
C10_Witness ==
    /\ Returned("compute_activations")
    /\ Len(res.x) = 3
    /\ res.batch_size = 2
    /\ res.out[2] # res.out[3]
    /\ res.out[1] # res.out[2]
(***************************************************************************)
(* Properties of the analysis calls                                        *)
(***************************************************************************)
\* C11: compute_activations and get_topk_activations change nothing of the
\* Parameter Store: when one of them has returned, dead_steps, the weights
\* and the biases are what they were before the call, so dead_steps is what
\* the forward passes alone have produced
C11_ActivationsLeaveStore ==
    (Returned("compute_activations") \/ Returned("get_topk_activations")) =>
        model = before

\* get_topk_activations has returned on a store whose counters a forward
\* pass has moved
C11_Witness ==
    /\ Returned("get_topk_activations")
    /\ \E d \in DOMAIN model.stats_last_nonzero : model.stats_last_nonzero[d] > 0
    /\ \E d \in DOMAIN model.stats_last_nonzero : model.stats_last_nonzero[d] = 0
    /\ \E d \in 1..model.n_dirs : res.values[d][1] > 0

(***************************************************************************)
(* Properties of load_sae_model                                            *)
(***************************************************************************)
\* the file holds a state dict with exactly the five entries, each of the
\* shape the declared sizes give it
Loadable(file, n_dirs, d_model) ==
    /\ file.kind = "state_dict"
    /\ DOMAIN file.tensors = Keys
    /\ \A key \in Keys : file.tensors[key].shape = ExpectedShape(n_dirs, d_model, key)

\* C12: when the blob is missing, unreadable or disagrees in shape with the
\* declared sizes, load_sae_model reports the error and returns no model; a
\* model is returned only when every field was loaded from the blob
C12_LoadAllOrNothing ==
    Returned("load_sae_model") =>
        /\ ~Loadable(res.file, res.n_neurons, res.n_input_features) =>
                (IsNone(res.out) /\ res.reported)
        /\ ~IsNone(res.out) =>
                /\ Loadable(res.file, res.n_neurons, res.n_input_features)
                /\ res.out[1].encoder_weight = res.file.tensors["encoder.weight"].data
                /\ res.out[1].decoder_weight = res.file.tensors["decoder.weight"].data
                /\ res.out[1].pre_bias = res.file.tensors["pre_bias"].data
                /\ res.out[1].latent_bias = res.file.tensors["latent_bias"].data
                /\ res.out[1].stats_last_nonzero
                      = res.file.tensors["stats_last_nonzero"].data

\* a complete blob stored for d_model = 3 loaded with d_model = 2 declared
C12_Witness ==
    /\ Returned("load_sae_model")
    /\ res.file.kind = "state_dict"
    /\ DOMAIN res.file.tensors = Keys
    /\ res.file.tensors["encoder.weight"].shape = <<res.n_neurons, 3>>
    /\ res.n_input_features = 2
    /\ IsNone(res.out)
    /\ res.reported

(***************************************************************************)
(* Properties of forward: the multi-k output                               *)
(***************************************************************************)
\* the decoding of pre clamped at zero on the index set T and zero elsewhere
DecodeOn(m, pre, T) ==
    Decode(m, Tensor([d \in DOMAIN pre |-> IF d \in T THEN Relu(pre[d]) ELSE 0]))

\* T holds w entries of pre and none outside T is larger than one inside
IsTopSet(pre, T, w) ==
    /\ Cardinality(T) = w
    /\ \A a \in T, b \in (DOMAIN pre) \ T : pre[a] >= pre[b]

\* the multi-k output of item i is present and built from a top set of w entries
MultikBuiltFrom(i, w) ==
    LET o == res.out[i]
    IN  /\ ~IsNone(o.multik_recons)
        /\ \E T \in SUBSET DOMAIN o.latents_pre_act :
              /\ IsTopSet(o.latents_pre_act, T, w)
              /\ o.multik_recons[1] = DecodeOn(model, o.latents_pre_act, T)

\* C13 as stated: with multik set the multi-k output is built from the top
\* min(2*k, n_dirs) pre-activations, clamped; it is absent when multik is unset
C13_MultikTwiceK ==
    ForwardReturned =>
        \A i \in Items :
            IF ~IsNone(model.multik)
            THEN MultikBuiltFrom(i, Min2(2 * model.k, model.n_dirs))
            ELSE IsNone(res.out[i].multik_recons)

\* C13 as the code has it: with multik set to a non-zero value the multi-k
\* output is built from the top min(4*k, n_dirs) pre-activations, clamped at
\* zero and zero elsewhere before decoding; with multik unset or 0 it is absent
C13_MultikFourTimesK ==
    ForwardReturned =>
        \A i \in Items :
            IF ~IsNone(model.multik) /\ model.multik[1] # 0
            THEN MultikBuiltFrom(i, Min2(4 * model.k, model.n_dirs))
            ELSE IsNone(res.out[i].multik_recons)

\* k = 1 with three positive pre-activations: the widths 2*k and 4*k differ
C13_Witness ==
    /\ ForwardReturned
    /\ model.k = 1
    /\ ~IsNone(model.multik)
    /\ \E i \in Items :
          /\ \A d \in DOMAIN res.out[i].latents_pre_act : res.out[i].latents_pre_act[d] > 0
          /\ ~IsNone(res.out[i].multik_recons)
          /\ ~MultikBuiltFrom(i, 2)

(***************************************************************************)
(* Properties of forward: k larger than the store                          *)
(***************************************************************************)
\* C14: with k > n_dirs forward completes without error and returns a
\* primary code of n_dirs entries for every item
C14_WideKDegrades ==
    (res.op = "forward" /\ model.k > model.n_dirs) =>
        /\ ~res.raised
        /\ \A i \in Items : Len(res.out[i].topk_indices) = model.n_dirs

\* forward on a store with k > n_dirs has raised and left the counters alone
C14_Witness ==
    /\ res.op = "forward"
    /\ model.k > model.n_dirs
    /\ res.raised
    /\ model = before

(***************************************************************************)
(* Properties of calls outside their domain                                *)
(***************************************************************************)
\* the rows handed to the last call are not all d_model wide
WrongWidth == \E i \in 1..Len(res.x) : Size(res.x[i]) # model.d_model

\* C15: a forward pass or a batch activation computation given rows of a
\* width other than d_model, or run with k, auxk or the chunk size at or
\* below zero, raises, returns nothing and leaves dead_steps as it was
C15_MisuseFailsFast ==
    /\ (res.op = "forward"
          /\ (WrongWidth \/ model.k <= 0 \/ (~IsNone(model.auxk) /\ model.auxk[1] <= 0)))
        => (res.raised /\ model.stats_last_nonzero = before.stats_last_nonzero)
    /\ (res.op = "compute_activations" /\ (WrongWidth \/ res.batch_size <= 0))
        => (res.raised /\ model.stats_last_nonzero = before.stats_last_nonzero)

\* auxk = -1: forward has raised after it moved the counters
C15_Witness ==
    /\ res.op = "forward"
    /\ ~WrongWidth
    /\ model.k = 1
    /\ model.auxk = Some(-1)
    /\ res.raised
    /\ model.stats_last_nonzero # before.stats_last_nonzero

(***************************************************************************)
(* Determinism                                                             *)
(***************************************************************************)
\* the call that has returned could, from the store it started on and with
\* the arguments it was given, have produced nothing but what it did produce:
\* the same result and the same store afterwards
SameAgain(needDistinct) ==
    /\ res.op = "forward" =>
          \A o \in ForwardOutcomes(before, res.x) : o.res = res /\ o.model = model
    /\ (Returned("decode_sparse") /\ (needDistinct => Distinct(res.indices))) =>
          /\ \A out \in DecodeSparse(before, res.indices, res.values) : out = res.out
          /\ model = DecodeStore(before)
    /\ Returned("decode_clamp") =>
          /\ \A out \in DecodeClamp(before, res.latents, res.clamp) : out = res.out
          /\ model = DecodeStore(before)
    /\ Returned("decode_at_k") =>
          /\ \A out \in DecodeAtK(before, res.latents, res.k) : out = res.out
          /\ model = DecodeStore(before)
    /\ res.op = "compute_activations" =>
          /\ ComputeActivationsResult(before, res.x, res.batch_size) = res
          /\ model = ActivationsStore(before)

RunAlone(m, c) ==
    CASE c.op = "decode_sparse" -> DecodeSparse(m, c.indices, c.values)
      [] c.op = "decode_clamp" -> DecodeClamp(m, c.latents, c.clamp)
      [] c.op = "decode_at_k" -> DecodeAtK(m, c.latents, c.k)
      [] c.op = "compute_activations" -> {ComputeActivations(m, c.x, c.batch_size)}

\* C17: however the steps of concurrent decode_sparse, decode_clamp,
\* decode_at_k and compute_activations calls interleave on one store, every
\* call that has finished holds the result it gives when run alone on that
\* store, and dead_steps is what it was when the calls began
C17_ConcurrentReadsAgree ==
    res.op = "concurrent" =>
        /\ model.stats_last_nonzero = before.stats_last_nonzero
        /\ \A t \in Callers :
              res.calls[t].done => res.calls[t].acc \in RunAlone(before, res.calls[t].call)

\* a decode call has finished while a compute_activations call is between
\* two of its chunks, on a store whose counters a forward pass has moved
C17_Witness ==
    /\ res.op = "concurrent"
    /\ \E d \in DOMAIN model.stats_last_nonzero : model.stats_last_nonzero[d] > 0
    /\ \E t, u \in Callers :
          /\ IsDecode(res.calls[t].call)
          /\ res.calls[t].done
          /\ res.calls[u].call.op = "compute_activations"
          /\ res.calls[u].pc = 1
          /\ ~res.calls[u].done

(***************************************************************************)
(* Frame of forward                                                        *)
(***************************************************************************)
\* C18: a forward pass, like a decode call, leaves encoder_weight,
\* decoder_weight, pre_bias and latent_bias as they were before the call (the
\* decoder is not re-normalized); of the store only dead_steps may differ
C18_ForwardTouchesOnlyDeadSteps ==
    res.op \in {"forward", "decode_sparse", "decode_clamp", "decode_at_k"} =>
        /\ model.encoder_weight = before.encoder_weight
        /\ model.decoder_weight = before.decoder_weight
        /\ model.pre_bias = before.pre_bias
        /\ model.latent_bias = before.latent_bias
        /\ [model EXCEPT !.stats_last_nonzero = before.stats_last_nonzero] = before

\* a forward pass has returned and moved dead_steps
C18_Witness ==
    /\ ForwardReturned
    /\ model.stats_last_nonzero # before.stats_last_nonzero
    /\ \E r \in DOMAIN model.decoder_weight :
          \E c \in DOMAIN model.decoder_weight[r] : model.decoder_weight[r][c] > 1

\* what a ranking of the column col with N places must be: min(N, items)
\* distinct items, in non-increasing order of activation, each with its own
\* activation, and no item left out that is strictly above a reported one.
\* indices are 0-based positions in col
IsRanking(indices, values, col, N) ==
    /\ Len(indices) = Min2(N, Len(col))
    /\ Len(values) = Len(indices)
    /\ \A p \in 1..Len(indices) :
          /\ indices[p] \in 0..(Len(col) - 1)
          /\ values[p] = col[indices[p] + 1]
    /\ \A p, q \in 1..Len(indices) : p # q => indices[p] # indices[q]
    /\ \A p \in 1..(Len(indices) - 1) : values[p] >= values[p + 1]
    /\ \A i \in 0..(Len(col) - 1) :
          (\A p \in 1..Len(indices) : indices[p] # i)
             => \A p \in 1..Len(values) : col[i + 1] <= values[p]

\* the rows of get_topk_activations rank the columns of the matrix that
\* compute_activations returns for the same collection
TopkRanked ==
    Returned("get_topk_activations") =>
       LET rows == ComputeActivations(before, res.x, res.batch_size)
       IN  \A d \in 1..before.n_dirs :
              IsRanking(res.indices[d], res.values[d], Column(rows, d - 1), before.k)

\* allNeuronSongs ranks the columns of sae.activations, ten places each
NeuronSongsRanked ==
    (~IsNone(page.visualizationData) /\ ~IsNone(page.visualizationData[1].sae)) =>
       LET sae == page.visualizationData[1].sae[1]
       IN  /\ ~IsNone(page.allNeuronSongs)
           /\ \A d \in 1..sae.neurons :
                 LET top == page.allNeuronSongs[1][d]
                 IN  IsRanking([p \in 1..Len(top) |-> top[p].index],
                               [p \in 1..Len(top) |-> top[p].activation],
                               [i \in 1..Len(sae.activations) |-> sae.activations[i][d]],
                               TopSongs)

\* C19: for every latent dimension, get_topk_activations (N = k) and
\* prepareAllNeuronSongs (N = 10) report min(N, number of items) distinct
\* items in non-increasing order of activation, each with its own
\* activation, and no unreported item is strictly above a reported one
C19_RankingsAreTopN == TopkRanked /\ NeuronSongsRanked

\* a page with more than ten songs has been ranked, and get_topk_activations
\* has ranked a collection of more items than k, with a tie among them
C19_Witness ==
    /\ ~IsNone(page.allNeuronSongs)
    /\ Len(page.originalSongs) > TopSongs
    /\ Returned("get_topk_activations")
    /\ Len(res.x) > before.k
    /\ before.k = 2
    /\ \E d \in 1..before.n_dirs :
          /\ res.values[d][1] = res.values[d][2]
          /\ res.values[d][2] > 0

\* what the current selection asks for, read off the page
Selected(song) ==
    /\ \/ "all" \in page.genreSelected
       \/ page.genreSelected = {}
       \/ \E g \in 1..Len(song.genres) : song.genres[g] \in page.genreSelected
    /\ \/ "all" \in page.artistSelected
       \/ page.artistSelected = {}
       \/ song.primary_artist \in page.artistSelected

\* C20: after 'Apply Filters', filteredSongs is exactly the songs of the
\* loaded data set, in original order, whose genres meet the genre selection
\* ('all', empty, or one of the song's genres selected) and whose
\* primary_artist meets the artist selection; earlier filters play no part
C20_FilterFromOriginal ==
    page.event = "filter" =>
       page.filteredSongs = SelectSeq(page.visualizationData[1].songs, Selected)

\* a filter that lets through more songs than the filter applied before it,
\* but not all of them
C20_Witness ==
    /\ page.event = "filter"
    /\ "all" \notin page.genreSelected \cup page.artistSelected
    /\ page.genreSelected # {}
    /\ page.artistSelected # {}
    /\ page.previousLength < Len(page.filteredSongs)
    /\ Len(page.filteredSongs) < Len(page.originalSongs)
    /\ page.plot.kind = "points"

\* the song a plotted point stands for
SongOf(point) ==
    LET songs == page.visualizationData[1].songs
    IN  songs[CHOOSE i \in 1..Len(songs) : songs[i].id = point.id]

ActivationOf(point) ==
    page.visualizationData[1].sae[1].activations[point.id + 1][page.currentNeuron + 1]

Plotted == IF page.plot.kind = "points" THEN Range(page.plot.points) ELSE {}

MarkersFollowNeuron ==
    \A point \in Plotted :
       IF page.currentNeuron >= 0
       THEN /\ point.color = neuronBaseColor <=> ActivationOf(point) >= page.activationThreshold
            /\ ActivationOf(point) < page.activationThreshold =>
                  /\ point.color = nonActivatedColor
                  /\ point.size = 60
                  /\ point.opacity = 30
       ELSE point.color = getColor(SongOf(point).genres)

ThresholdAloneKeepsMarkers ==
    (page.currentNeuron < 0 /\ page'.activationThreshold # page.activationThreshold
        /\ page'.event = "threshold")
       => page'.plot = page.plot

\* C21: while a neuron is selected a plotted song has the highlight colour
\* exactly when its activation is at or above the threshold, and is otherwise
\* gray with size 6 and opacity 0.3; with no neuron selected every point has
\* its genre colour and a change of the threshold changes no marker
C21_MarkersFollowThreshold == []MarkersFollowNeuron /\ [][ThresholdAloneKeepsMarkers]_vars

\* the slider has just been moved onto the activation of a plotted song
\* while another plotted song lies below it
C21_Witness ==
    /\ page.event = "threshold"
    /\ page.currentNeuron >= 0
    /\ \E point \in Plotted : /\ ActivationOf(point) = page.activationThreshold
                               /\ point.color = neuronBaseColor
    /\ \E point \in Plotted : point.color = nonActivatedColor

PointsIndexFilteredSongs ==
    \A point \in Plotted :
       /\ point.customdata + 1 \in DOMAIN page.filteredSongs
       /\ page.filteredSongs[point.customdata + 1].id = point.id

ClickShowsThePoint ==
    page.event = "click" =>
       /\ ~IsNone(page.details)
       /\ page.details[1].song = SongOf(page.plot.points[page.clicked])

\* C22: after any sequence of filter, reset, neuron and threshold events the
\* index stored with a plotted point is the position of its song in the
\* current filteredSongs, also when songs without an embedding were dropped,
\* and a click on the point displays exactly that song
C22_ClickShowsItsSong == PointsIndexFilteredSongs /\ ClickShowsThePoint

\* a click on a point that follows a dropped song, after a filter was applied
C22_Witness ==
    /\ page.event = "click"
    /\ page.plot.points[page.clicked].customdata # page.clicked - 1
    /\ Len(page.filteredSongs) < Len(page.originalSongs)
    /\ ~IsNone(page.details)

\* what the page shows and holds right after its load
InitialView == Loaded(page.visualizationData[1])

ViewFields ==
    {"filteredSongs", "originalSongs", "genreSelected", "artistSelected", "currentNeuron",
     "currentNeuronData", "activationThreshold", "plot", "legend", "currentPlot", "drawnBy"}

ResetRestoresInitialView ==
    page.event = "reset" =>
       /\ \A f \in ViewFields : page[f] = InitialView[f]
       /\ page.filteredSongs = page.originalSongs
       /\ page.genreSelected = {"all"}
       /\ page.artistSelected = {"all"}
       /\ page.currentNeuron = -1
       /\ IsNone(page.currentNeuronData)
       /\ page.activationThreshold = InitialThreshold
       /\ page.plot.kind = "points" => page.drawnBy = "newPlot"
       /\ page.plot.kind = "points"
             => {point.id : point \in Plotted}
                   = {page.originalSongs[i].id : i \in 1..Len(page.originalSongs)}
                        \cap page.visualizationData[1].embeddings

OriginalSongsKept ==
    ~IsNone(page.visualizationData) => page.originalSongs = page.visualizationData[1].songs

\* C27: from any state after the load, 'Reset Filters' yields the initial
\* view: filteredSongs is the original song list, only 'all' is selected in
\* both filters, currentNeuron is -1, currentNeuronData is null, the threshold
\* is 0.2 and a new plot of all songs is drawn; no event changes originalSongs
C27_ResetYieldsInitialView == ResetRestoresInitialView /\ OriginalSongsKept

\* a reset after a song was clicked while a neuron was selected
C27_Witness ==
    /\ page.event = "reset"
    /\ ~IsNone(page.details)
    /\ ~IsNone(page.details[1].activation)
    /\ page.plot.kind = "points"

\* the palette key whose colour getColor gives to a song, 0 for the default
ColourKey(song) ==
    LET found == {g \in 1..Len(song.genres) : FirstKey(song.genres[g]) # 0}
    IN  IF found = {} THEN 0 ELSE FirstKey(song.genres[MinOf(found)])

LegendGenres == {e \in Range(page.legend.entries) : e[1] # "Other/Unknown"}

GenreLegendShown ==
    /\ page.currentNeuron < 0
    /\ page.legend.shown
    /\ page.plot.kind = "points"

\* C28: with no neuron selected the legend lists exactly the palette genres
\* whose colour getColor gives to a filtered song, plus 'Other/Unknown':
\* every genre colour on the plot has an entry and every genre entry is the
\* colour of a plotted point
C28_LegendMatchesPlot ==
    GenreLegendShown =>
       /\ {e[1] : e \in LegendGenres}
             = {genreColors[ColourKey(page.filteredSongs[i])][1] :
                   i \in {j \in 1..Len(page.filteredSongs) :
                             ColourKey(page.filteredSongs[j]) # 0}}
       /\ <<"Other/Unknown", defaultColor>> \in Range(page.legend.entries)
       /\ \A point \in Plotted :
             point.color # defaultColor => \E e \in LegendGenres : e[2] = point.color
       /\ \A e \in LegendGenres : \E point \in Plotted : point.color = e[2]

\* the legend of a genre-coloured plot holds an entry whose colour no
\* plotted point has
C28_Witness ==
    /\ GenreLegendShown
    /\ \E e \in LegendGenres : \A point \in Plotted : point.color # e[2]

\* the squared Euclidean norm of column c of decoder.weight is exactly 1
UnitColumn(W, c) ==
    \A r \in DOMAIN W :
       /\ W[r][c].den > 0
       /\ SumSquares([i \in DOMAIN W |-> W[i][c]]) = W[r][c].den

ZeroColumn(W, c) == \A r \in DOMAIN W : W[r][c].num = 0

\* what holds of unit_norm_decoder_: the columns that held a non-zero weight
\* get norm 1 and keep their direction, the all-zero columns become nan
UnitNormOnNonZeroColumns ==
    Returned("unit_norm_decoder_") =>
       \A c \in 0..(model.n_dirs - 1) :
          IF ZeroColumn(before.decoder_weight, c)
          THEN \A r \in DOMAIN model.decoder_weight : model.decoder_weight[r][c] = NaN
          ELSE /\ UnitColumn(model.decoder_weight, c)
               /\ \A r \in DOMAIN model.decoder_weight :
                     model.decoder_weight[r][c].num = before.decoder_weight[r][c].num

\* C23: after unit_norm_decoder_ every decoder column, the decoder vector of
\* a latent dimension, has Euclidean norm 1
C23_ColumnsUnitNorm ==
    Returned("unit_norm_decoder_") =>
       \A c \in 0..(model.n_dirs - 1) : UnitColumn(model.decoder_weight, c)

\* the utility has run on a decoder with an all-zero column next to a
\* column of norm 5, which it has brought to norm 1
C23_Witness ==
    /\ Returned("unit_norm_decoder_")
    /\ \E c \in 0..(model.n_dirs - 1) : ZeroColumn(before.decoder_weight, c)
    /\ \E c \in 0..(model.n_dirs - 1) :
          /\ SumSquares([i \in DOMAIN before.decoder_weight |->
                             before.decoder_weight[i][c]]) = 25
          /\ before.decoder_weight[0][c].den = 1
          /\ UnitColumn(model.decoder_weight, c)

\* the number of most recent consecutive logged calls whose primary-code
\* union does not hold d: all of them if d was never selected
Unselected(d) ==
    LET hits == {c \in 1..Len(history) : d \in history[c]}
    IN  IF hits = {} THEN Len(history)
        ELSE Len(history) - (CHOOSE c \in hits : \A e \in hits : e <= c)

CountsUnselectedCalls ==
    \A d \in DOMAIN model.stats_last_nonzero :
       /\ model.stats_last_nonzero[d] >= 0
       /\ model.stats_last_nonzero[d] = Unselected(d)
       /\ IsDead(model, d) <=> Unselected(d) > model.dead_steps_threshold

SelectedIsNotDead ==
    ForwardReturned => \A d \in PrimaryUnion : ~IsDead(model, d)

\* C24: from construction on, dead_steps[i] is non-negative and is the number
\* of most recent consecutive forward calls that did not select i (all calls
\* so far if none did), so i is dead exactly when it went unselected for more
\* than dead_steps_threshold consecutive calls, and it stops being dead in
\* the very call that selects it
C24_StalenessCountsCalls == CountsUnselectedCalls /\ SelectedIsNotDead

\* C24 as it holds: the counter and the dead flag as above; a dimension
\* stops being dead in the call that selects it when dead_steps_threshold
\* is not negative
C24_StalenessCountsCallsFromZero ==
    /\ CountsUnselectedCalls
    /\ model.dead_steps_threshold >= 0 => SelectedIsNotDead

\* a dimension that was dead has just been selected, while another one has
\* gone unselected in every call so far and a third was reset earlier
C24_Witness ==
    /\ ForwardReturned
    /\ model.dead_steps_threshold >= 0
    /\ \E d \in PrimaryUnion : IsDead(before, d)
    /\ \E d \in DOMAIN model.stats_last_nonzero :
          /\ Unselected(d) = Len(history)
          /\ IsDead(model, d)
    /\ \E d \in DOMAIN model.stats_last_nonzero :
          /\ 0 < Unselected(d)
          /\ Unselected(d) < Len(history)

\* the Activation Matrix of the batch that forward was called on, on the
\* store as it was before the call
MatrixOfBatch(batch_size) == ComputeActivations(before, res.x, batch_size)

MatrixAgreesWithForward ==
    ForwardReturned =>
       \A batch_size \in {1, DefaultBatchSize} : \A i \in Items :
          LET row == MatrixOfBatch(batch_size)[i]
              out == res.out[i]
          IN  /\ DOMAIN row = DOMAIN out.latents_pre_act
              /\ \A d \in DOMAIN row :
                    /\ row[d] >= 0
                    /\ row[d] = IF out.latents_pre_act[d] > 0 THEN out.latents_pre_act[d]
                                ELSE 0
              /\ \A p \in 1..Len(out.topk_indices) :
                    row[out.topk_indices[p]] = out.topk_values[p]

MatrixNonNegative ==
    Returned("compute_activations") =>
       \A i \in 1..Len(res.out) : \A d \in DOMAIN res.out[i] : res.out[i][d] >= 0

\* C25: every entry of the Activation Matrix is max(0, pre_act) of the dense
\* pre-activation forward exposes for the item, so it is >= 0 and the row is
\* not sparsified, and at every index of the item's primary code it equals
\* the primary code's value
C25_MatrixAgreesWithForward == MatrixAgreesWithForward /\ MatrixNonNegative

\* forward has returned for an item whose pre-activation has a negative entry
\* and more positive entries than the primary code has places
C25_Witness ==
    /\ ForwardReturned
    /\ \E i \in Items :
          /\ \E d \in DOMAIN res.out[i].latents_pre_act : res.out[i].latents_pre_act[d] < 0
          /\ Cardinality({d \in DOMAIN res.out[i].latents_pre_act :
                             MatrixOfBatch(1)[i][d] > 0}) > Len(res.out[i].topk_indices)

\* C26: in a forward pass with dead_steps_threshold >= 0 the dead set of the
\* auxiliary code is the one after the pass's own staleness update: every
\* auxiliary entry with a non-zero value lies on a dimension that is dead
\* after the update and outside the batch's primary-code union, and a
\* dimension the primary top-k selected in this pass gets no non-zero
\* auxiliary value
C26_AuxAfterUpdate ==
    (ForwardReturned /\ model.dead_steps_threshold >= 0) =>
        \A i \in Items :
            AuxPresent(i) =>
                /\ \A p \in 1..Len(AuxIndices(i)) :
                      AuxValues(i)[p] # 0 =>
                         /\ model.stats_last_nonzero[AuxIndices(i)[p]]
                               > model.dead_steps_threshold
                         /\ AuxIndices(i)[p] \notin PrimaryUnion
                /\ \A d \in PrimaryUnion : \A p \in 1..Len(AuxIndices(i)) :
                      AuxIndices(i)[p] = d => AuxValues(i)[p] = 0

\* in one pass a dimension that only this pass's update made dead carries a
\* positive auxiliary value, and a dimension that was dead before the pass
\* is selected and appears in the auxiliary code with the value 0
C26_Witness ==
    /\ ForwardReturned
    /\ model.dead_steps_threshold >= 0
    /\ \E i \in Items :
          /\ AuxPresent(i)
          /\ \E p \in 1..Len(AuxIndices(i)) :
                /\ AuxValues(i)[p] > 0
                /\ ~IsDead(before, AuxIndices(i)[p])
    /\ \E i \in Items :
          /\ AuxPresent(i)
          /\ \E p \in 1..Len(AuxIndices(i)) :
                /\ AuxIndices(i)[p] \in PrimaryUnion
                /\ IsDead(before, AuxIndices(i)[p])
                /\ res.out[i].latents_pre_act[AuxIndices(i)[p]] > 0

\* the song of the last save_lyrics call reads back as what was saved
SavedIsRead ==
    /\ get_lyrics(files, res.artist, res.song) = Some(res.lyrics)
    /\ lyrics_exists(files, res.artist, res.song)

\* a save without compression of lyrics without carriage returns reads back
SaveUncompressedRoundTrip ==
    (Returned("save_lyrics") /\ ~res.compress
        /\ \A q \in 1..Len(res.lyrics) : res.lyrics[q] # CR) => SavedIsRead

\* C29: after save_lyrics(L, artist, song, compress, base_dir) completes,
\* whatever the directory held before and whatever compress is,
\* get_lyrics(artist, song, base_dir) returns exactly L and
\* lyrics_exists(artist, song, base_dir) is true
C29_SaveThenGetRoundTrip == Returned("save_lyrics") => SavedIsRead

\* a compressed save of lyrics without carriage returns over a song that has
\* a plain .txt file: the reader still returns the plain file's text
C29_Witness ==
    /\ Returned("save_lyrics")
    /\ res.compress
    /\ \A q \in 1..Len(res.lyrics) : res.lyrics[q] # CR
    /\ get_lyrics_path(res.artist, res.song) \in DOMAIN files
    /\ get_lyrics(files, res.artist, res.song) # Some(res.lyrics)
    /\ lyrics_exists(files, res.artist, res.song)

\* the step is a call of compress_lyrics_directory
CompressStep == res'.op = "compress_lyrics_directory"

\* every song reads the same after the step as before it
ReadersSeeTheSame ==
    \A artist \in Artists, track \in Tracks :
        get_lyrics(files', artist, track) = get_lyrics(files, artist, track)

\* no file whose name ends with .txt
NoTxtRemains == \A p \in DOMAIN files : p[3] # ".txt"

\* a call right after a call compresses nothing and changes no file
SecondCallIdle ==
    res.op = "compress_lyrics_directory" =>
        /\ files' = files
        /\ res'.compressed_count = 0

\* C30: compress_lyrics_directory keeps what get_lyrics returns for every
\* song, leaves no uncompressed .txt file under base_dir, and a second call
\* right after it compresses nothing and changes no file
C30_CompressPreservesReads ==
    /\ [](Returned("compress_lyrics_directory") => NoTxtRemains)
    /\ [][CompressStep => (ReadersSeeTheSame /\ SecondCallIdle)]_vars

\* a call that compressed two files, one of them with carriage returns
\* in it, after which the songs are read from the gzipped files
C30_Witness ==
    /\ Returned("compress_lyrics_directory")
    /\ res.compressed_count = 2
    /\ \E artist \in Artists, track \in Tracks :
          get_lyrics(files, artist, track) = Some(<<"a", LF, "b">>)
    /\ \A artist \in Artists, track \in Tracks :
          lyrics_exists(files, artist, track)

====
